---- MODULE Spec2Model ----
(***************************************************************************)
(* A model of adbfs: the whole-file buffer (FileBuffer over a              *)
(* GrowableByteSlice and a DirtyTimestamp), the open-files registry        *)
(* (OpenFiles), the per-descriptor AdbFile handlers, and the caching       *)
(* device client in front of the directory-entry cache.                    *)
(*                                                                         *)
(* Spec       FUSE threads opening, syncing and releasing files.           *)
(* SpecFile   every handler of one file descriptor.                        *)
(* SpecCache  the CachingDeviceClient and the directory-entry cache.       *)
(***************************************************************************)
EXTENDS Integers, Sequences, FiniteSets, TLC

VARIABLES
    \* ---- Spec: open files ----
    readOnly,       \* Config.ReadOnly
    buffersByPath,  \* OpenFiles.buffersByPath: path -> buffer id, NoBuf when absent
    bufs,           \* the FileBuffer objects, by id
    device,         \* the files on the device, by path
    pc,             \* per thread: where it is inside a handler
    hbuf,           \* per thread: the FileBuffer of the AdbFile it holds, or NoBuf
    hflags,         \* per thread: AdbFileOpenOptions.Flags of that AdbFile
    oldest,         \* per buffer: instant of the oldest modification that no
                    \* successful writeback has covered yet (0: none); observation only
    \* ---- SpecCache: caching device client ----
    cache,          \* the dir-entry cache: directory -> entry or NoEntry
    devDirs,        \* the directory listings on the device
    writers,        \* per thread: the onCloseWriter it holds, or NoWriter
    loading,        \* per thread: a listing fetched by a loader, not yet stored
    \* ---- SpecFs: the dispatcher's short-lived operations ----
    pool,           \* quickUseClientPool: the channel's capacity and the clients in it
    held,           \* per thread: whether it holds a client taken from the pool
    call,           \* per thread: the dispatcher operation it is in, or NoCall
    links,          \* the symbolic links on the device: path -> target, NoPath if none
    \* ---- SpecClient: the device client proper ----
    client,         \* whether it has a disconnect handler, whether the device is
                    \* attached, and how often the handler was called
    \* ---- SpecMount, SpecLog, SpecTracker: the command's own machinery ----
    server,         \* the mounted FUSE server: the unmounted flag, the calls of
                    \* Unmount, main and the goroutines of the disconnect handler
    logEntry,       \* a LogEntry
    tracker,        \* a ProcessTracker, its processes and its callers
    \* ---- shared ----
    now,            \* the clock
    last            \* the last handler step that ran, what it returned and
                    \* which device calls it issued; observation only

fileVars  == <<readOnly, buffersByPath, bufs, device, pc, hbuf, hflags, oldest>>
cacheVars == <<cache, devDirs, writers, loading>>
fsVars    == <<pool, held, call, links, client>>
cliVars   == <<server, logEntry, tracker>>
vars      == <<readOnly, buffersByPath, bufs, device, pc, hbuf, hflags, oldest,
               cache, devDirs, writers, loading, pool, held, call, links, client,
               server, logEntry, tracker, now, last>>

----------------------------------------------------------------------------
(* Bounds of the model *)

MaxBufs == 3        \* FileBuffer objects referenced at the same time
MaxTime == 3        \* the clock stops advancing here
MaxLen  == 2        \* longest file, in bytes
CacheTTL == 1       \* the dir-entry cache's time to live, in clock units
MaxPoolSize == 2     \* largest Config.ConnectionPoolSize
MaxRefs == 2         \* most IncRefCount calls not yet undone (SpecRef)
MaxDisconnects == 3  \* calls of the disconnect handler that are followed (SpecClient, SpecMount)
MaxCalls == 2        \* calls of one method on one LogEntry that are followed (SpecLog)
BlockLen == 100      \* lengths and offsets are multiples of it (SpecSlice)
MaxBlocks == 4       \* longest slice, in blocks (SpecSlice)

Threads     == {1, 2}   \* the FUSE threads
FileThreads == {1}      \* the threads of SpecFile
FilePaths == {"/d/f"}
Byte      == 0..2
BufIds    == 1..MaxBufs
NoBuf     == 0

\* One unit of the model's clock stands for DefaultDirtyTimeout (5 minutes).
DefaultDirtyTimeout == 1

Max(a, b) == IF a > b THEN a ELSE b
Min(a, b) == IF a < b THEN a ELSE b

----------------------------------------------------------------------------
(* FileOpenFlags: the bit field as the set of the bits that are set;       *)
(* O_RDONLY is the empty set.                                              *)

O_RDONLY == {}
O_WRONLY == {"WRONLY"}
O_RDWR   == {"RDWR"}
O_APPEND == {"APPEND"}
O_CREATE == {"CREATE"}
O_TRUNC  == {"TRUNC"}

Contains(f, bits) == (f \cap bits) # {}
CanRead(f)  == ~Contains(f, O_WRONLY)
CanWrite(f) == Contains(f, O_WRONLY \cup O_RDWR)

\* The flag words the kernel passes to Open, and to Create.
OpenFlagChoices   == {O_RDONLY, O_RDWR, O_RDWR \cup O_CREATE, O_CREATE}
CreateFlagChoices == {O_RDONLY}

----------------------------------------------------------------------------
(* Errors and their errno *)

toErrno(err) ==
    CASE err = "nil"             -> "OK"
      [] err = "ErrLinkTooDeep"  -> "ELOOP"
      [] err = "ErrNotALink"     -> "EINVAL"
      [] err = "ErrNoPermission" -> "EACCES"
      [] err = "ErrNotPermitted" -> "EPERM"
      [] err = "FileNoExist"     -> "ENOENT"
      [] err = "syscall.EINVAL"  -> "EINVAL"
      [] OTHER                   -> "EIO"

----------------------------------------------------------------------------
(* DirtyTimestamp: the instant t, 0 being the zero time (unset).           *)

DirtyIsSet(ts) == ts # 0

\* variant: every Set records the present instant
DirtySetAdvances(ts, clk) == clk

DirtySet(ts, clk) == IF ts = 0 THEN clk ELSE ts

DirtyClear(ts) == 0

\* variant: "at least d" in place of "longer than d"
HasBeenDirtyAtLeast(ts, d, clk) == DirtyIsSet(ts) /\ ts + d <= clk

HasBeenDirtyFor(ts, d, clk) == DirtyIsSet(ts) /\ ts + d < clk

----------------------------------------------------------------------------
(* GrowableByteSlice: data is s.data (so Len(data) = len(s.data)), cap is  *)
(* cap(s.data), and spare holds the bytes of the underlying array that lie *)
(* beyond len, up to the last one that is not zero; the rest of the array  *)
(* up to cap is zero.                                                      *)

initialGrowableByteSliceCapacity == 1024

\* q without the zeros at its end
StripZeros(q) ==
    LET nonZero == {i \in 1..Len(q) : q[i] # 0}
    IN  IF nonZero = {} THEN <<>>
        ELSE SubSeq(q, 1, CHOOSE i \in nonZero : \A j \in nonZero : j <= i)

\* the byte at index i (from 1) of the underlying array
ArrayAt(s, i) ==
    IF i <= Len(s.data) THEN s.data[i]
    ELSE IF i - Len(s.data) <= Len(s.spare) THEN s.spare[i - Len(s.data)]
    ELSE 0

EmptySlice == [data |-> <<>>, spare |-> <<>>, cap |-> 0]

reallocate(s, newLen) ==
    LET newCapacity == Max(2 * newLen, initialGrowableByteSliceCapacity)
    IN  [data  |-> [i \in 1..newLen |-> IF i <= Len(s.data) THEN s.data[i] ELSE 0],
         spare |-> <<>>,
         cap   |-> newCapacity]

shrink(s, newLen) ==
    IF Len(s.data) < s.cap \div 3
    THEN reallocate(s, newLen)
    ELSE \* for i := range s.data[newLen:] { s.data[i] = 0 }: i runs over
         \* 0 .. len-newLen-1, the indices of the tail slice, applied to s.data
         LET n      == Len(s.data) - newLen
             zeroed == [i \in 1..Len(s.data) |-> IF i <= n THEN 0 ELSE s.data[i]]
         IN  [data  |-> SubSeq(zeroed, 1, newLen),
              spare |-> StripZeros(SubSeq(zeroed, newLen + 1, Len(zeroed)) \o s.spare),
              cap   |-> s.cap]

Resize(s, newLen) ==
    CASE newLen < Len(s.data) -> shrink(s, newLen)
      [] newLen = Len(s.data) -> s
      [] newLen > Len(s.data) /\ newLen <= s.cap ->
            [data  |-> [i \in 1..newLen |-> ArrayAt(s, i)],
             spare |-> StripZeros([i \in 1..Max(0, Len(s.data) + Len(s.spare) - newLen)
                                     |-> ArrayAt(s, newLen + i)]),
             cap   |-> s.cap]
      [] OTHER -> reallocate(s, newLen)

\* slice(off, end) grows the slice when end is past its length; copy then
\* overwrites [off, end).  Offsets count from 0.
SliceWriteAt(s, d, off) ==
    LET end == off + Len(d)
        g   == IF end > Len(s.data) THEN Resize(s, end) ELSE s
    IN  [g EXCEPT !.data = [i \in 1..Len(g.data) |->
                               IF i > off /\ i <= end THEN d[i - off] ELSE g.data[i]]]

\* ReadAt(buf, off) with len(buf) = n: the bytes copied and whether io.EOF
SliceReadAt(s, n, off) ==
    IF off >= Len(s.data) THEN [bytes |-> <<>>, eof |-> TRUE]
    ELSE LET k == Min(n, Len(s.data) - off)
         IN  [bytes |-> SubSeq(s.data, off + 1, off + k),
              eof   |-> (k + off = Len(s.data))]

\* ReadFrom stores what ioutil.ReadAll returned, a fresh array whose capacity
\* the library chooses: c is that capacity.
SliceReadFrom(d, c) == [data |-> d, spare |-> <<>>, cap |-> c]

\* The capacity of the array ioutil.ReadAll returns for d: its buffer starts
\* at bytes.MinRead, which files as short as the ones here never outgrow.
ReadAllMinCap == 512

ReadAllCaps(d) == {ReadAllMinCap}

----------------------------------------------------------------------------
(* The device, as the FileBuffer's DeviceClient sees it.  A device call    *)
(* may fail at any time; which calls fail is the environment's choice.     *)

NoFile    == [exists |-> FALSE, data |-> <<>>]
FileOf(d) == [exists |-> TRUE, data |-> d]

Prefixes(d) == {SubSeq(d, 1, k) : k \in 0..(Len(d) - 1)}

\* What a FileBuffer method hands back to its caller in the model: the buffer
\* and the device file afterwards, the error, the device calls issued in
\* order, and the call that failed ("" when none did).
Outcome(f, file, err, calls, failed) ==
    [f |-> f, file |-> file, err |-> err, calls |-> calls, failed |-> failed]

----------------------------------------------------------------------------
(* FileBuffer *)

FreeBuf == [alloc |-> FALSE, path |-> "", refCount |-> 0,
            buffer |-> EmptySlice, dirty |-> 0]

\* variant: the timestamp is cleared before the writer is opened
saveClearsFirst(f, file) ==
    LET d == f.buffer.data
        g == [f EXCEPT !.dirty = DirtyClear(@)]
    IN  {Outcome(g, file, "NetworkError", <<"OpenWrite">>, "OpenWrite")}
        \cup {Outcome(g, FileOf(part), "NetworkError", <<"OpenWrite">>, "WriteTo")
                : part \in Prefixes(d)}
        \cup {Outcome(g, FileOf(d), "NetworkError", <<"OpenWrite">>, "Close")}
        \cup {Outcome(g, FileOf(d), "nil", <<"OpenWrite">>, "")}

saveToDevice(f, file) ==
    LET d == f.buffer.data IN
    \* OpenWrite fails
    {Outcome(f, file, "NetworkError", <<"OpenWrite">>, "OpenWrite")}
    \* WriteTo fails after part of the buffer went out
    \cup {Outcome(f, FileOf(part), "NetworkError", <<"OpenWrite">>, "WriteTo")
            : part \in Prefixes(d)}
    \* Close fails
    \cup {Outcome(f, FileOf(d), "NetworkError", <<"OpenWrite">>, "Close")}
    \* all three succeed
    \cup {Outcome([f EXCEPT !.dirty = DirtyClear(@)], FileOf(d), "nil",
                  <<"OpenWrite">>, "")}

loadFromDevice(f, file) ==
    \* OpenRead fails (always when the file is not there)
    {Outcome(f, file, IF file.exists THEN "NetworkError" ELSE "FileNoExist",
             <<"OpenRead">>, "OpenRead")}
    \cup (IF ~file.exists THEN {} ELSE
          \* the stream fails part-way: ReadFrom stores what was read so far
          UNION {{Outcome([f EXCEPT !.buffer = SliceReadFrom(part, c)], file,
                           "NetworkError", <<"OpenRead">>, "ReadAll")
                     : c \in ReadAllCaps(part)}
                 : part \in Prefixes(file.data)}
          \cup
          {Outcome([f EXCEPT !.buffer = SliceReadFrom(file.data, c)], file,
                   "nil", <<"OpenRead">>, "")
             : c \in ReadAllCaps(file.data)})

\* variant: the write does not touch the timestamp
WriteAtKeepsTimestamp(f, d, off, clk) ==
    [f EXCEPT !.buffer = SliceWriteAt(@, d, off)]

WriteAt(f, d, off, clk) ==
    [f EXCEPT !.dirty = DirtySet(@, clk), !.buffer = SliceWriteAt(@, d, off)]

SetSize(f, size, clk) ==
    [f EXCEPT !.dirty = DirtySet(@, clk), !.buffer = Resize(@, size)]

\* variant: a clean buffer is left alone
SyncNeverLoads(f, file) ==
    IF DirtyIsSet(f.dirty) THEN saveToDevice(f, file)
    ELSE {Outcome(f, file, "nil", <<>>, "")}

Sync(f, file) ==
    IF DirtyIsSet(f.dirty) THEN saveToDevice(f, file) ELSE loadFromDevice(f, file)

\* variant: the buffer is saved whether dirty or not
FlushAlwaysSaves(f, file) == saveToDevice(f, file)

\* variant: the timestamp is cleared and nothing is sent
FlushOnlyClears(f, file) ==
    {Outcome([f EXCEPT !.dirty = DirtyClear(@)], file, "nil", <<>>, "")}

Flush(f, file) ==
    IF DirtyIsSet(f.dirty) THEN saveToDevice(f, file)
    ELSE {Outcome(f, file, "nil", <<>>, "")}

SyncIfTooDirty(f, file, clk) ==
    IF HasBeenDirtyFor(f.dirty, DefaultDirtyTimeout, clk)
    THEN saveToDevice(f, file)
    ELSE {Outcome(f, file, "nil", <<>>, "")}

IncRefCount(f) == [f EXCEPT !.refCount = @ + 1]

\* getFilePermissions: Stat through the buffer's client
StatOutcomes(file) ==
    {IF file.exists THEN "nil" ELSE "FileNoExist", "NetworkError"}

\* variant: O_CREATE alone leaves the buffer empty
initializeCreateSkipsLoad(f, flags, file, clk) ==
    IF Contains(flags, O_CREATE \cup O_TRUNC \cup O_APPEND) /\ ~CanWrite(flags)
    THEN {Outcome(f, file, "ErrNotPermitted", <<>>, "")}
    ELSE UNION {
        IF st = "NetworkError"
            THEN {Outcome(f, file, st, <<"Stat">>, "Stat")}
        ELSE IF st = "FileNoExist" /\ ~Contains(flags, O_CREATE)
            THEN {Outcome(f, file, st, <<"Stat">>, "Stat")}
        ELSE LET createNewFile == (st = "FileNoExist")
                 g == IF Contains(flags, O_CREATE \cup O_TRUNC)
                      THEN [f EXCEPT !.dirty = DirtySet(@, clk)] ELSE f
             IN  {Outcome(r.f, r.file, "nil", <<"Stat">> \o r.calls, r.failed)
                    : r \in Sync(g, file)}
        : st \in StatOutcomes(file)}

\* variant: no initial save, the buffer is left dirty
initializeSkipsSave(f, flags, file, clk) ==
    IF Contains(flags, O_CREATE \cup O_TRUNC \cup O_APPEND) /\ ~CanWrite(flags)
    THEN {Outcome(f, file, "ErrNotPermitted", <<>>, "")}
    ELSE UNION {
        IF st = "NetworkError"
            THEN {Outcome(f, file, st, <<"Stat">>, "Stat")}
        ELSE IF st = "FileNoExist" /\ ~Contains(flags, O_CREATE)
            THEN {Outcome(f, file, st, <<"Stat">>, "Stat")}
        ELSE LET createNewFile == (st = "FileNoExist")
                 g == IF createNewFile \/ Contains(flags, O_TRUNC)
                      THEN [f EXCEPT !.dirty = DirtySet(@, clk)] ELSE f
             IN  {Outcome(r.f, r.file, "nil", <<"Stat">> \o r.calls, r.failed)
                    : r \in IF DirtyIsSet(g.dirty)
                           THEN {Outcome(g, file, "nil", <<>>, "")}
                           ELSE Sync(g, file)}
        : st \in StatOutcomes(file)}

\* initialize: the outcomes of constructing a buffer for path with flags.
\* The result of the initial Sync is dropped (f.Sync(logEntry); return).
initialize(f, flags, file, clk) ==
    IF Contains(flags, O_CREATE \cup O_TRUNC \cup O_APPEND) /\ ~CanWrite(flags)
    THEN {Outcome(f, file, "ErrNotPermitted", <<>>, "")}
    ELSE UNION {
        IF st = "NetworkError"
            THEN {Outcome(f, file, st, <<"Stat">>, "Stat")}
        ELSE IF st = "FileNoExist" /\ ~Contains(flags, O_CREATE)
            THEN {Outcome(f, file, st, <<"Stat">>, "Stat")}
        ELSE LET createNewFile == (st = "FileNoExist")
                 g == IF createNewFile \/ Contains(flags, O_TRUNC)
                      THEN [f EXCEPT !.dirty = DirtySet(@, clk)] ELSE f
             IN  {Outcome(r.f, r.file, "nil", <<"Stat">> \o r.calls, r.failed)
                    : r \in Sync(g, file)}
        : st \in StatOutcomes(file)}

NewFileBuffer(path, flags, file, clk) ==
    initialize([FreeBuf EXCEPT !.alloc = TRUE, !.path = path], flags, file, clk)

----------------------------------------------------------------------------
(* Observation: the record of a handler step *)

Range(q) == {q[i] : i \in 1..Len(q)}

Ev(op, t, b, err, calls, failed, arg) ==
    [op |-> op, t |-> t, b |-> b, status |-> toErrno(err),
     calls |-> calls, failed |-> failed, arg |-> arg, stdout |-> ""]

\* The oldest modification not yet written back, after a step whose outcome
\* is r and that modified the buffer iff modified.
oldestAfter(o, modified, r, clk) ==
    IF "OpenWrite" \in Range(r.calls) /\ r.failed = "" THEN 0
    ELSE IF modified /\ o = 0 THEN clk
    ELSE o

----------------------------------------------------------------------------
(* Initial states *)

CacheIdle ==
    /\ cache = <<>>
    /\ devDirs = <<>>
    /\ writers = <<>>
    /\ loading = <<>>

\* NewAdbFileSystem: a channel of ConnectionPoolSize places (at least one),
\* into which one client is put
PoolClients == 1

NewPool(size) == [cap |-> Max(size, 1), n |-> PoolClients]

defaultPoolSize == 2

NoCall == [op |-> "none", name |-> <<>>, arg |-> <<>>,
           at |-> "", path |-> <<>>, currentDepth |-> 0, calls |-> <<>>]

\* a client of a device that is attached
NoClient == [handler |-> FALSE, connected |-> TRUE, disconnects |-> 0]

\* the server as main has it once it is mounted and serving
NoServer == [main |-> "serving", unmounted |-> FALSE, unmounts |-> 0,
             spawned |-> 0, checking |-> 0, passed |-> 0]

LogMethods == {"Error", "Result", "Status", "CacheUsed"}

\* StartOperation: nothing recorded yet.  calls counts the calls of each
\* method, for observation only.
NoLogEntry == [err |-> "nil", result |-> "", status |-> "", cacheUsed |-> FALSE,
               cacheHit |-> FALSE, panicked |-> FALSE,
               calls |-> [m \in LogMethods |-> 0], hits |-> <<>>]

ProcessKeys == {"k1", "k2"}

\* NewProcessTracker.  go is, per caller, the key of the Go call it is in
\* (past the look at the base context), or "".
NoTracker == [done |-> FALSE, processesByKey |-> [k \in ProcessKeys |-> "none"],
              processWaiter |-> 0, shutdown |-> "idle",
              go |-> [t \in Threads |-> ""]]

CliIdle ==
    /\ server = NoServer
    /\ logEntry = NoLogEntry
    /\ tracker = NoTracker

FsIdle ==
    /\ client = NoClient
    /\ CliIdle
    /\ pool = NewPool(defaultPoolSize)
    /\ held = [t \in Threads |-> FALSE]
    /\ call = [t \in Threads |-> NoCall]
    /\ links = <<>>

Init ==
    /\ readOnly \in BOOLEAN
    /\ buffersByPath = [p \in FilePaths |-> NoBuf]
    /\ bufs = [b \in BufIds |-> FreeBuf]
    /\ device \in [FilePaths -> {NoFile, FileOf(<<2, 2>>)}]
    /\ pc = [t \in Threads |-> "idle"]
    /\ hbuf = [t \in Threads |-> NoBuf]
    /\ hflags = [t \in Threads |-> {}]
    /\ oldest = [b \in BufIds |-> 0]
    /\ now = 1
    /\ last = Ev("Init", 0, NoBuf, "nil", <<>>, "", <<>>)
    /\ CacheIdle
    /\ FsIdle

----------------------------------------------------------------------------
(* OpenFiles and AdbFileSystem.Open / Create *)

FreeIds == {b \in BufIds : ~bufs[b].alloc}

\* variant: the buffer is put into the map before it is known to be built
GetOrLoadKeepsFailed(t, op, path, flags) ==
    IF buffersByPath[path] # NoBuf
    THEN LET b == buffersByPath[path] IN
         /\ bufs' = [bufs EXCEPT ![b] = IncRefCount(@)]
         /\ hbuf' = [hbuf EXCEPT ![t] = b]
         /\ hflags' = [hflags EXCEPT ![t] = flags]
         /\ last' = Ev(op, t, b, "nil", <<>>, "", <<>>)
         /\ UNCHANGED <<buffersByPath, device, oldest>>
    ELSE \E r \in NewFileBuffer(path, flags, device[path], now) :
         IF r.err # "nil"
         THEN /\ FreeIds # {}
              /\ LET b == CHOOSE x \in FreeIds : \A y \in FreeIds : x <= y IN
                 /\ buffersByPath' = [buffersByPath EXCEPT ![path] = b]
                 /\ bufs' = [bufs EXCEPT ![b] = r.f]
              /\ last' = Ev(op, t, NoBuf, r.err, r.calls, r.failed, <<>>)
              /\ UNCHANGED <<device, hbuf, hflags, oldest>>
         ELSE /\ FreeIds # {}
              /\ LET b == CHOOSE x \in FreeIds : \A y \in FreeIds : x <= y IN
                 /\ buffersByPath' = [buffersByPath EXCEPT ![path] = b]
                 /\ bufs' = [bufs EXCEPT ![b] = IncRefCount(r.f)]
                 /\ device' = [device EXCEPT ![path] = r.file]
                 /\ hbuf' = [hbuf EXCEPT ![t] = b]
                 /\ hflags' = [hflags EXCEPT ![t] = flags]
                 /\ oldest' = [oldest EXCEPT ![b] =
                        oldestAfter(0, "OpenWrite" \in Range(r.calls), r, now)]
                 /\ last' = Ev(op, t, b, "nil", r.calls, r.failed, <<>>)

\* OpenFiles.GetOrLoad, run to completion under the registry lock, followed
\* by NewAdbFile in createFile.
GetOrLoad(t, op, path, flags) ==
    IF buffersByPath[path] # NoBuf
    THEN LET b == buffersByPath[path] IN
         /\ bufs' = [bufs EXCEPT ![b] = IncRefCount(@)]
         /\ hbuf' = [hbuf EXCEPT ![t] = b]
         /\ hflags' = [hflags EXCEPT ![t] = flags]
         /\ last' = Ev(op, t, b, "nil", <<>>, "", <<>>)
         /\ UNCHANGED <<buffersByPath, device, oldest>>
    ELSE \E r \in NewFileBuffer(path, flags, device[path], now) :
         IF r.err # "nil"
         THEN /\ last' = Ev(op, t, NoBuf, r.err, r.calls, r.failed, <<>>)
              /\ UNCHANGED <<buffersByPath, bufs, device, hbuf, hflags, oldest>>
         ELSE /\ FreeIds # {}
              /\ LET b == CHOOSE x \in FreeIds : \A y \in FreeIds : x <= y IN
                 /\ buffersByPath' = [buffersByPath EXCEPT ![path] = b]
                 /\ bufs' = [bufs EXCEPT ![b] = IncRefCount(r.f)]
                 /\ device' = [device EXCEPT ![path] = r.file]
                 /\ hbuf' = [hbuf EXCEPT ![t] = b]
                 /\ hflags' = [hflags EXCEPT ![t] = flags]
                 /\ oldest' = [oldest EXCEPT ![b] =
                        oldestAfter(0, "OpenWrite" \in Range(r.calls), r, now)]
                 /\ last' = Ev(op, t, b, "nil", r.calls, r.failed, <<>>)

\* variant: no look at Config.ReadOnly
createFileUnchecked(t, op, path, flags) ==
    /\ pc[t] = "idle"
    /\ hbuf[t] = NoBuf
    /\ GetOrLoad(t, op, path, flags)
    /\ UNCHANGED <<readOnly, pc, now>>
    /\ UNCHANGED <<cacheVars, fsVars, cliVars>>

\* variant: the file is opened with a client taken from the pool
createFileBorrows(t, op, path, flags) ==
    /\ pc[t] = "idle"
    /\ hbuf[t] = NoBuf
    /\ pool.n > 0
    /\ IF Contains(flags, O_RDWR \cup O_WRONLY \cup O_CREATE \cup O_TRUNC \cup O_APPEND)
          /\ readOnly
       THEN /\ last' = Ev(op, t, NoBuf, "ErrNotPermitted", <<>>, "", <<>>)
            /\ UNCHANGED <<buffersByPath, bufs, device, hbuf, hflags, oldest, pool>>
       ELSE /\ GetOrLoad(t, op, path, flags)
            /\ pool' = [pool EXCEPT !.n = @ - 1]
    /\ UNCHANGED <<readOnly, pc, now>>
    /\ UNCHANGED <<cacheVars, held, call, links, client, cliVars>>

createFile(t, op, path, flags) ==
    /\ pc[t] = "idle"
    /\ hbuf[t] = NoBuf
    /\ IF Contains(flags, O_RDWR \cup O_WRONLY \cup O_CREATE \cup O_TRUNC \cup O_APPEND)
          /\ readOnly
       THEN /\ last' = Ev(op, t, NoBuf, "ErrNotPermitted", <<>>, "", <<>>)
            /\ UNCHANGED <<buffersByPath, bufs, device, hbuf, hflags, oldest>>
       ELSE GetOrLoad(t, op, path, flags)
    /\ UNCHANGED <<readOnly, pc, now>>
    /\ UNCHANGED <<cacheVars, fsVars, cliVars>>

Open(t, path, flags) == createFile(t, "Open", path, flags)

Create(t, path, rawFlags) ==
    LET f1 == rawFlags \cup O_CREATE \cup O_TRUNC
        f2 == IF ~Contains(f1, O_RDWR) THEN f1 \cup O_WRONLY ELSE f1
    IN  createFile(t, "Create", path, f2)

\* variant: the handler is called after every decrement
DecRefCountAlwaysCalls(t) ==
    /\ pc[t] = "idle"
    /\ hbuf[t] # NoBuf
    /\ LET b == hbuf[t]
           newCount == bufs[b].refCount - 1
       IN  /\ newCount >= 0
           /\ bufs' = [bufs EXCEPT ![b].refCount = newCount]
           /\ pc' = [pc EXCEPT ![t] = "release"]
           /\ UNCHANGED <<hbuf, hflags>>
           /\ last' = Ev("DecRefCount", t, b, "nil", <<>>, "", <<>>)
    /\ UNCHANGED <<readOnly, buffersByPath, device, oldest, now>>
    /\ UNCHANGED <<cacheVars, fsVars, cliVars>>

\* AdbFile.Release up to the return of atomic.AddInt32 in DecRefCount; the
\* zero-refcount handler, when due, is the next step of the thread.
AdbFileRelease(t) ==
    /\ pc[t] = "idle"
    /\ hbuf[t] # NoBuf
    /\ LET b == hbuf[t]
           newCount == bufs[b].refCount - 1
       IN  /\ newCount >= 0
           /\ bufs' = [bufs EXCEPT ![b].refCount = newCount]
           /\ IF newCount = 0
              THEN /\ pc' = [pc EXCEPT ![t] = "release"]
                   /\ UNCHANGED <<hbuf, hflags>>
              ELSE /\ hbuf' = [hbuf EXCEPT ![t] = NoBuf]
                   /\ hflags' = [hflags EXCEPT ![t] = {}]
                   /\ UNCHANGED pc
           /\ last' = Ev("DecRefCount", t, b, "nil", <<>>, "", <<>>)
    /\ UNCHANGED <<readOnly, buffersByPath, device, oldest, now>>
    /\ UNCHANGED <<cacheVars, fsVars, cliVars>>

\* variant: the entry of the path is never deleted
releaseKeepsEntry(t) ==
    /\ pc[t] = "release"
    /\ hbuf' = [hbuf EXCEPT ![t] = NoBuf]
    /\ last' = Ev("release", t, hbuf[t], "nil", <<>>, "", <<>>)
    /\ pc' = [pc EXCEPT ![t] = "idle"]
    /\ hflags' = [hflags EXCEPT ![t] = {}]
    /\ UNCHANGED <<readOnly, buffersByPath, bufs, oldest, device, now>>
    /\ UNCHANGED <<cacheVars, fsVars, cliVars>>

\* variant: no look at the refcount
releaseUnchecked(t) ==
    /\ pc[t] = "release"
    /\ LET b  == hbuf[t]
           m  == [buffersByPath EXCEPT ![bufs[b].path] = NoBuf]
           h  == [hbuf EXCEPT ![t] = NoBuf]
           referenced(x) == (\E u \in Threads : h[u] = x)
                            \/ (\E p \in FilePaths : m[p] = x)
       IN  /\ buffersByPath' = m
           /\ hbuf' = h
           /\ bufs' = [x \in BufIds |-> IF referenced(x) THEN bufs[x] ELSE FreeBuf]
           /\ oldest' = [x \in BufIds |-> IF referenced(x) THEN oldest[x] ELSE 0]
           /\ last' = Ev("release", t, b, "nil", <<>>, "", <<"IsDirty">>)
    /\ pc' = [pc EXCEPT ![t] = "idle"]
    /\ hflags' = [hflags EXCEPT ![t] = {}]
    /\ UNCHANGED <<readOnly, device, now>>
    /\ UNCHANGED <<cacheVars, fsVars, cliVars>>

\* OpenFiles.release, the ZeroRefCountHandler, under the registry lock.
\* A buffer that nothing refers to any more is garbage and its id is free.
\* The event tells whether IsDirty was called, which reads the timestamp
\* without the buffer's lock.
release(t) ==
    /\ pc[t] = "release"
    /\ LET b  == hbuf[t]
           m  == IF bufs[b].refCount # 0 THEN buffersByPath
                 ELSE [buffersByPath EXCEPT ![bufs[b].path] = NoBuf]
           h  == [hbuf EXCEPT ![t] = NoBuf]
           referenced(x) == (\E u \in Threads : h[u] = x)
                            \/ (\E p \in FilePaths : m[p] = x)
       IN  /\ buffersByPath' = m
           /\ hbuf' = h
           /\ bufs' = [x \in BufIds |-> IF referenced(x) THEN bufs[x] ELSE FreeBuf]
           /\ oldest' = [x \in BufIds |-> IF referenced(x) THEN oldest[x] ELSE 0]
           /\ last' = Ev("release", t, b, "nil", <<>>, "",
                         IF bufs[b].refCount # 0 THEN <<>> ELSE <<"IsDirty">>)
    /\ pc' = [pc EXCEPT ![t] = "idle"]
    /\ hflags' = [hflags EXCEPT ![t] = {}]
    /\ UNCHANGED <<readOnly, device, now>>
    /\ UNCHANGED <<cacheVars, fsVars, cliVars>>

----------------------------------------------------------------------------
(* AdbFile: the handlers of an open file descriptor *)

\* the step of thread t on its buffer b ends with outcome r
Apply(t, b, r, modified, ev) ==
    /\ bufs' = [bufs EXCEPT ![b] = r.f]
    /\ device' = [device EXCEPT ![bufs[b].path] = r.file]
    /\ oldest' = [oldest EXCEPT ![b] = oldestAfter(@, modified, r, now)]
    /\ last' = ev

HandleIdle(t) == pc[t] = "idle" /\ hbuf[t] # NoBuf

AdbFileRead(t, n, off) ==
    /\ HandleIdle(t)
    /\ IF ~CanRead(hflags[t])
       THEN last' = Ev("Read", t, hbuf[t], "ErrNotPermitted", <<>>, "", <<>>)
       ELSE last' = Ev("Read", t, hbuf[t], "nil", <<>>, "",
                       SliceReadAt(bufs[hbuf[t]].buffer, n, off).bytes)
    /\ UNCHANGED <<fileVars, now>>
    /\ UNCHANGED <<cacheVars, fsVars, cliVars>>

\* AdbFile.Write up to the return of FileBuffer.WriteAt
AdbFileWrite(t, data, off) ==
    /\ HandleIdle(t)
    /\ LET b == hbuf[t] IN
       IF ~CanWrite(hflags[t])
       THEN /\ last' = Ev("Write", t, b, "ErrNotPermitted", <<>>, "", <<>>)
            /\ UNCHANGED <<bufs, oldest, pc>>
       ELSE /\ bufs' = [bufs EXCEPT ![b] = WriteAt(@, data, off, now)]
            /\ oldest' = [oldest EXCEPT ![b] = IF @ = 0 THEN now ELSE @]
            /\ pc' = [pc EXCEPT ![t] = "WriteSync"]
            /\ last' = Ev("WriteAt", t, b, "nil", <<>>, "", <<off, data>>)
    /\ UNCHANGED <<readOnly, buffersByPath, device, hbuf, hflags, now>>
    /\ UNCHANGED <<cacheVars, fsVars, cliVars>>

\* the rest of AdbFile.Write: FileBuffer.SyncIfTooDirty
AdbFileWriteSync(t) ==
    /\ pc[t] = "WriteSync"
    /\ LET b == hbuf[t] IN
       \E r \in SyncIfTooDirty(bufs[b], device[bufs[b].path], now) :
           Apply(t, b, r, FALSE,
                 Ev("Write", t, b, r.err, r.calls, r.failed,
                    IF last.op = "WriteAt" /\ last.t = t THEN last.arg ELSE <<>>))
    /\ pc' = [pc EXCEPT ![t] = "idle"]
    /\ UNCHANGED <<readOnly, buffersByPath, hbuf, hflags, now>>
    /\ UNCHANGED <<cacheVars, fsVars, cliVars>>

\* variant: the handle's flags are not looked at
AdbFileFlushUnchecked(t) ==
    /\ HandleIdle(t)
    /\ LET b == hbuf[t]
           afterWrite == IF last.op = "Write" /\ last.t = t /\ last.status = "OK"
                         THEN <<"afterWrite">> \o last.arg ELSE <<>>
       IN
       IF FALSE
       THEN /\ last' = Ev("Flush", t, b, "nil", <<>>, "", <<>>)
            /\ UNCHANGED <<bufs, device, oldest>>
       ELSE \E r \in Flush(bufs[b], device[bufs[b].path]) :
               Apply(t, b, r, FALSE,
                     Ev("Flush", t, b, r.err, r.calls, r.failed, afterWrite))
    /\ UNCHANGED <<readOnly, buffersByPath, pc, hbuf, hflags, now>>
    /\ UNCHANGED <<cacheVars, fsVars, cliVars>>

AdbFileFlush(t) ==
    /\ HandleIdle(t)
    /\ LET b == hbuf[t]
           afterWrite == IF last.op = "Write" /\ last.t = t /\ last.status = "OK"
                         THEN <<"afterWrite">> \o last.arg ELSE <<>>
       IN
       IF ~CanWrite(hflags[t])
       THEN /\ last' = Ev("Flush", t, b, "nil", <<>>, "", <<>>)
            /\ UNCHANGED <<bufs, device, oldest>>
       ELSE \E r \in Flush(bufs[b], device[bufs[b].path]) :
               Apply(t, b, r, FALSE,
                     Ev("Flush", t, b, r.err, r.calls, r.failed, afterWrite))
    /\ UNCHANGED <<readOnly, buffersByPath, pc, hbuf, hflags, now>>
    /\ UNCHANGED <<cacheVars, fsVars, cliVars>>

AdbFileFsync(t) ==
    /\ HandleIdle(t)
    /\ LET b == hbuf[t] IN
       \E r \in Sync(bufs[b], device[bufs[b].path]) :
           Apply(t, b, r, FALSE, Ev("Fsync", t, b, r.err, r.calls, r.failed, <<>>))
    /\ UNCHANGED <<readOnly, buffersByPath, pc, hbuf, hflags, now>>
    /\ UNCHANGED <<cacheVars, fsVars, cliVars>>

\* variant: the handle's flags are not looked at
AdbFileTruncateUnchecked(t, size) ==
    /\ HandleIdle(t)
    /\ LET b == hbuf[t] IN
       /\ bufs' = [bufs EXCEPT ![b] = SetSize(@, size, now)]
       /\ oldest' = [oldest EXCEPT ![b] = IF @ = 0 THEN now ELSE @]
       /\ pc' = [pc EXCEPT ![t] = "TruncateSync"]
       /\ last' = Ev("SetSize", t, b, "nil", <<>>, "", <<size>>)
    /\ UNCHANGED <<readOnly, buffersByPath, device, hbuf, hflags, now>>
    /\ UNCHANGED <<cacheVars, fsVars, cliVars>>

\* AdbFile.Truncate up to the return of FileBuffer.SetSize
AdbFileTruncate(t, size) ==
    /\ HandleIdle(t)
    /\ LET b == hbuf[t] IN
       IF ~CanWrite(hflags[t])
       THEN /\ last' = Ev("Truncate", t, b, "ErrNotPermitted", <<>>, "", <<>>)
            /\ UNCHANGED <<bufs, oldest, pc>>
       ELSE /\ bufs' = [bufs EXCEPT ![b] = SetSize(@, size, now)]
            /\ oldest' = [oldest EXCEPT ![b] = IF @ = 0 THEN now ELSE @]
            /\ pc' = [pc EXCEPT ![t] = "TruncateSync"]
            /\ last' = Ev("SetSize", t, b, "nil", <<>>, "", <<size>>)
    /\ UNCHANGED <<readOnly, buffersByPath, device, hbuf, hflags, now>>
    /\ UNCHANGED <<cacheVars, fsVars, cliVars>>

\* the rest of AdbFile.Truncate: FileBuffer.Sync
AdbFileTruncateSync(t) ==
    /\ pc[t] = "TruncateSync"
    /\ LET b == hbuf[t] IN
       \E r \in Sync(bufs[b], device[bufs[b].path]) :
           Apply(t, b, r, FALSE, Ev("Truncate", t, b, r.err, r.calls, r.failed, <<>>))
    /\ pc' = [pc EXCEPT ![t] = "idle"]
    /\ UNCHANGED <<readOnly, buffersByPath, hbuf, hflags, now>>
    /\ UNCHANGED <<cacheVars, fsVars, cliVars>>

\* time passes
Tick ==
    /\ now < MaxTime
    /\ now' = now + 1
    /\ UNCHANGED <<fileVars, last>>
    /\ UNCHANGED <<cacheVars, fsVars, cliVars>>

----------------------------------------------------------------------------

WriteData == {<<1>>}

\* Spec: two threads open, sync and release files concurrently.
Next ==
    \/ \E t \in Threads, p \in FilePaths, f \in OpenFlagChoices : Open(t, p, f)
    \/ \E t \in Threads, p \in FilePaths, f \in CreateFlagChoices : Create(t, p, f)
    \/ \E t \in Threads : AdbFileRead(t, MaxLen, 0)
    \/ \E t \in Threads : AdbFileFlush(t)
    \/ \E t \in Threads : AdbFileFsync(t)
    \/ \E t \in Threads : AdbFileRelease(t)
    \/ \E t \in Threads : release(t)
    \/ Tick

Spec == Init /\ [][Next]_vars

\* SpecFile: every handler of a file descriptor, one thread.
NextFile ==
    \/ \E t \in FileThreads, p \in FilePaths, f \in OpenFlagChoices : Open(t, p, f)
    \/ \E t \in FileThreads, p \in FilePaths, f \in CreateFlagChoices : Create(t, p, f)
    \/ \E t \in FileThreads : AdbFileRead(t, MaxLen, 0)
    \/ \E t \in FileThreads, d \in WriteData, off \in 0..(MaxLen - 1) :
          off + Len(d) <= MaxLen /\ AdbFileWrite(t, d, off)
    \/ \E t \in FileThreads : AdbFileWriteSync(t)
    \/ \E t \in FileThreads : AdbFileFlush(t)
    \/ \E t \in FileThreads : AdbFileFsync(t)
    \/ \E t \in FileThreads, size \in 0..MaxLen : AdbFileTruncate(t, size)
    \/ \E t \in FileThreads : AdbFileTruncateSync(t)
    \/ \E t \in FileThreads : AdbFileRelease(t)
    \/ \E t \in FileThreads : release(t)
    \/ Tick

SpecFile == Init /\ [][NextFile]_vars

----------------------------------------------------------------------------
(* Properties of the open-files registry (Spec) *)

Live(b) == bufs[b].alloc /\ bufs[b].refCount > 0

\* C1: for every path at most one FileBuffer with refcount > 0 exists, so two
\* handles open on the path at the same time share their FileBuffer.
C1_OneLiveBufferPerPath ==
    \A b1, b2 \in BufIds :
        Live(b1) /\ Live(b2) /\ bufs[b1].path = bufs[b2].path => b1 = b2

\* C2: an entry leaves buffersByPath only if the buffer it names has
\* refcount zero at that moment: a buffer with refcount > 0 is never removed.
C2_OnlyZeroRefRemoved ==
    [][\A p \in FilePaths :
          buffersByPath[p] # NoBuf /\ buffersByPath'[p] # buffersByPath[p]
          => bufs[buffersByPath[p]].refCount = 0]_vars

----------------------------------------------------------------------------
(* Properties of a file descriptor's handlers (SpecFile) *)

\* C3: when Write on a writable handle returned OK and the Flush that follows
\* on the same handle returns OK, the device file equals the buffer, and the
\* bytes written are in it.
C3_WriteThenFlushReachesDevice ==
    (last.op = "Flush" /\ last.status = "OK" /\ last.arg # <<>>) =>
        LET f == bufs[last.b]
            d == device[f.path]
        IN  /\ d = FileOf(f.buffer.data)
            /\ Len(last.arg) = 3 =>
                 LET off == last.arg[2]
                     w   == last.arg[3]
                 IN  /\ Len(d.data) >= off + Len(w)
                     /\ SubSeq(d.data, off + 1, off + Len(w)) = w

C3_Witness ==
    /\ last.op = "Flush" /\ last.status = "OK" /\ Len(last.arg) = 3
    /\ last.calls = <<"OpenWrite">>
    /\ device[bufs[last.b].path].data # <<>>

\* C4: a writeback clears the dirty-timestamp only if OpenWrite, the streaming
\* and Close all succeed; if one of them fails the buffer stays dirty.
C4_DirtyClearedOnlyBySuccessfulSave ==
    [][\A b \in BufIds :
          /\ (now' = now /\ last'.b = b
                /\ last'.failed \in {"OpenWrite", "WriteTo", "Close"})
             => DirtyIsSet(bufs'[b].dirty)
          /\ (bufs[b].alloc /\ bufs'[b].alloc
                /\ DirtyIsSet(bufs[b].dirty) /\ ~DirtyIsSet(bufs'[b].dirty))
             => (last'.b = b /\ last'.calls = <<"OpenWrite">> /\ last'.failed = "")
      ]_vars

C4_Witness ==
    /\ last.op = "Flush" /\ last.failed = "Close"
    /\ DirtyIsSet(bufs[last.b].dirty)

\* C5: when WriteAt or SetSize on a FileBuffer has returned, the buffer is dirty.
C5_DirtyAfterWriteAtSetSize ==
    last.op \in {"WriteAt", "SetSize"} => DirtyIsSet(bufs[last.b].dirty)

C5_Witness ==
    /\ last.op = "SetSize"
    /\ bufs[last.b].dirty = now
    /\ pc[last.t] = "TruncateSync"

\* C6: Write writes the buffer back, inside the call, exactly when, the write
\* applied, the oldest modification not yet written back is strictly more
\* than the dirty timeout old; otherwise Write issues no device call.
C6_WriteSyncsIffTooDirty ==
    [][\A t \in Threads :
          /\ (pc[t] = "WriteSync" /\ pc'[t] = "idle") =>
                LET o == oldest[hbuf[t]]
                    tooDirty == o # 0 /\ now - o > DefaultDirtyTimeout
                IN  /\ tooDirty => last'.calls = <<"OpenWrite">>
                    /\ ~tooDirty => last'.calls = <<>>
          /\ (now' = now /\ last'.op = "Write" /\ last'.t = t /\ pc[t] = "idle")
                => last'.calls = <<>>
      ]_vars

C6_Witness ==
    /\ last.op = "Write" /\ last.status = "OK"
    /\ last.calls = <<"OpenWrite">>
    /\ ~DirtyIsSet(bufs[last.b].dirty)

\* a step of thread t that is FileBuffer.Sync, called from Fsync or Truncate
SyncStep(t) ==
    \/ now' = now /\ last'.op = "Fsync" /\ last'.t = t
    \/ pc[t] = "TruncateSync" /\ pc'[t] = "idle"

\* C7: Sync, and so Fsync, on a dirty buffer writes the buffer back and does
\* not reload it; on a clean buffer it issues no OpenWrite and replaces the
\* contents with the device's.
C7_SyncSavesDirtyReloadsClean ==
    [][\A t \in Threads : (SyncStep(t) /\ hbuf[t] # NoBuf) =>
          LET b  == hbuf[t]
              f  == bufs[b]
              g  == bufs'[b]
          IN  IF DirtyIsSet(f.dirty)
              THEN /\ last'.calls = <<"OpenWrite">>
                   /\ g.buffer = f.buffer
                   /\ last'.status = "OK" => device'[f.path] = FileOf(f.buffer.data)
              ELSE /\ last'.calls = <<"OpenRead">>
                   /\ device' = device
                   /\ last'.status = "OK" => g.buffer.data = device[f.path].data
      ]_vars

C7_Witness ==
    /\ last.op = "Fsync" /\ last.status = "OK" /\ last.calls = <<"OpenRead">>
    /\ bufs[last.b].buffer.data = device[bufs[last.b].path].data
    /\ bufs[last.b].buffer.data # <<>>

\* C8: Flush on a FileBuffer that is clean issues no device call and changes
\* neither the contents nor the dirty state.
C8_FlushCleanIsNoop ==
    [][\A t \in Threads :
          (now' = now /\ last'.op = "Flush" /\ last'.t = t /\ hbuf[t] # NoBuf
             /\ CanWrite(hflags[t]) /\ ~DirtyIsSet(bufs[hbuf[t]].dirty))
          => /\ last'.calls = <<>>
             /\ bufs'[hbuf[t]] = bufs[hbuf[t]]
             /\ device' = device
      ]_vars

C8_Witness ==
    /\ last.op = "Flush" /\ last.status = "OK" /\ last.calls = <<>>
    /\ CanWrite(hflags[last.t])
    /\ ~DirtyIsSet(bufs[last.b].dirty)
    /\ bufs[last.b].buffer.data # <<>>

----------------------------------------------------------------------------
(* CachingDeviceClient and the directory-entry cache (SpecCache)           *)
(* A path is the sequence of its characters, so that path.Dir and          *)
(* path.Base are computed on the text as the library computes them.        *)

RootPath == <<"/">>
DirD     == <<"/", "d">>
FileF    == <<"/", "d", "/", "f">>
FileG    == <<"/", "d", "/", "g">>

DirPaths   == {RootPath, DirD}
StatPaths  == {RootPath, DirD, FileF, FileG}
WritePaths == {FileF}
NoPath     == <<>>

LastIndex(p, c) ==
    LET S == {i \in 1..Len(p) : p[i] = c}
    IN  IF S = {} THEN 0 ELSE CHOOSE i \in S : \A j \in S : j <= i

RECURSIVE StripSlashes(_)
StripSlashes(p) ==
    IF p # <<>> /\ p[Len(p)] = "/" THEN StripSlashes(SubSeq(p, 1, Len(p) - 1)) ELSE p

\* path.Base: trailing slashes stripped, the text after the last slash;
\* "." for the empty path and "/" for a path of slashes only
PathBase(p) ==
    IF p = <<>> THEN <<".">>
    ELSE LET q == StripSlashes(p)
             r == SubSeq(q, LastIndex(q, "/") + 1, Len(q))
         IN  IF r = <<>> THEN <<"/">> ELSE r

\* path.Clean of a path with no ".", ".." or doubled slash in it
PathClean(p) ==
    IF p = <<>> THEN <<".">>
    ELSE LET q == StripSlashes(p) IN IF q = <<>> THEN <<"/">> ELSE q

\* path.Dir: the text up to and including the last slash, cleaned
PathDir(p) == PathClean(SubSeq(p, 1, LastIndex(p, "/")))

\* the names a directory of the device may hold
NamesIn(dir) == {PathBase(p) : p \in {q \in StatPaths \ {RootPath} : PathDir(q) = dir}}

NoEntry == [found |-> FALSE, names |-> {}]

\* a listing the loader returned for dir, on its way into the cache
NoLoad == [dir |-> NoPath, entries |-> NoEntry]

NewCachedDirEntries(entries) == [found |-> TRUE, names |-> entries]

\* what the cache keeps under a key: a listing and the instant it expires at
NoItem == [found |-> FALSE, names |-> {}, expires |-> 0]

\* an item is expired once the clock is past its expiration
Expired(item) == now > item.expires

\* variant: an item is returned however old it is
CacheGetIgnoresExpiry(c, dir) ==
    IF c[dir].found THEN NewCachedDirEntries(c[dir].names) ELSE NoEntry

CacheGet(c, dir) ==
    IF c[dir].found /\ ~Expired(c[dir])
    THEN NewCachedDirEntries(c[dir].names)
    ELSE NoEntry

\* cache.Set(path, entries, cache.DefaultExpiration)
CacheSet(c, dir, entries) ==
    [c EXCEPT ![dir] = [found |-> TRUE, names |-> entries.names,
                        expires |-> now + CacheTTL]]

\* the entry is gone for the next Get, whenever the eviction itself happens
RemoveEventually(c, dir) ==
    IF dir \in DOMAIN c THEN [c EXCEPT ![dir] = NoItem] ELSE c

\* the inner client's Stat: the entry, no such file, or a failed call
DeviceStat(name) ==
    {"NetworkError"}
    \cup (IF name = RootPath \/ PathBase(name) \in devDirs[PathDir(name)]
          THEN {"nil"} ELSE {"FileNoExist"})

InitCache ==
    /\ readOnly = FALSE
    /\ buffersByPath = [p \in FilePaths |-> NoBuf]
    /\ bufs = [b \in BufIds |-> FreeBuf]
    /\ device = [p \in FilePaths |-> NoFile]
    /\ pc = [t \in Threads |-> "idle"]
    /\ hbuf = [t \in Threads |-> NoBuf]
    /\ hflags = [t \in Threads |-> {}]
    /\ oldest = [b \in BufIds |-> 0]
    /\ now = 1
    /\ last = Ev("Init", 0, NoBuf, "nil", <<>>, "", <<>>)
    /\ cache = [d \in DirPaths |-> NoItem]
    /\ devDirs \in [DirPaths -> SUBSET {<<"d">>, <<"f">>, <<"g">>}]
    /\ \A d \in DirPaths : devDirs[d] \subseteq NamesIn(d)
    /\ <<"d">> \in devDirs[RootPath]
    /\ writers = [t \in Threads |-> NoPath]
    /\ loading = [t \in Threads |-> NoLoad]
    /\ FsIdle

CacheStep(t, ev) ==
    /\ last' = ev
    /\ UNCHANGED <<readOnly, buffersByPath, bufs, device, hbuf, hflags, oldest, now>>
    /\ UNCHANGED <<fsVars, cliVars>>

\* variant: a name the cached listing lacks is looked up on the device
CachingStatAsksDevice(t, name) ==
    /\ pc[t] = "idle"
    /\ LET dir   == PathDir(name)
           base  == PathBase(name)
           entry == CacheGet(cache, dir)
       IN  IF dir # base /\ entry.found /\ base \in entry.names
           THEN CacheStep(t, Ev("Stat", t, NoBuf, "nil", <<>>, "", name))
           ELSE \E err \in DeviceStat(name) :
                  CacheStep(t, Ev("Stat", t, NoBuf, err, <<"Stat">>,
                                  IF err = "NetworkError" THEN "Stat" ELSE "", name))
    /\ UNCHANGED <<pc, cacheVars>>

\* variant: the root is looked up in the cache like any other path
ClientStatRootFromCache(name) ==
    LET entry == CacheGet(cache, PathDir(name))
    IN  IF entry.found
        THEN {[err |-> IF PathBase(name) \in entry.names THEN "nil" ELSE "FileNoExist",
               calls |-> <<>>, failed |-> ""]}
        ELSE {[err |-> err, calls |-> <<"Stat">>,
               failed |-> IF err = "NetworkError" THEN "Stat" ELSE ""]
                : err \in DeviceStat(name)}

\* CachingDeviceClient.Stat: what it returns and the device calls it issues
ClientStat(name) ==
    LET dir   == PathDir(name)
        base  == PathBase(name)
        entry == CacheGet(cache, dir)
        inner == {[err |-> err, calls |-> <<"Stat">>,
                   failed |-> IF err = "NetworkError" THEN "Stat" ELSE ""]
                    : err \in DeviceStat(name)}
    IN  IF dir = base
        THEN inner   \* the root is never looked up in the cache
        ELSE IF entry.found
        THEN {[err |-> IF base \in entry.names THEN "nil" ELSE "FileNoExist",
               calls |-> <<>>, failed |-> ""]}
        ELSE inner

CachingStat(t, name) ==
    /\ pc[t] = "idle"
    /\ \E r \in ClientStat(name) :
          CacheStep(t, Ev("Stat", t, NoBuf, r.err, r.calls, r.failed, name))
    /\ UNCHANGED <<pc, cacheVars>>

\* ListDirEntries up to the return of the loader: GetOrLoad asks the cache
\* and, on a miss, the device; the listing is stored by the next step.
CachingListDirEntries(t, dir) ==
    /\ pc[t] = "idle"
    /\ IF CacheGet(cache, dir).found
       THEN /\ CacheStep(t, Ev("ListDirEntries", t, NoBuf, "nil", <<>>, "", dir))
            /\ UNCHANGED <<pc, loading>>
       ELSE \/ /\ CacheStep(t, Ev("ListDirEntries", t, NoBuf, "NetworkError",
                                  <<"ListDirEntries">>, "ListDirEntries", dir))
               /\ UNCHANGED <<pc, loading>>
            \/ /\ loading' = [loading EXCEPT ![t] =
                              [dir |-> dir, entries |-> NewCachedDirEntries(devDirs[dir])]]
               /\ pc' = [pc EXCEPT ![t] = "Set"]
               /\ CacheStep(t, Ev("loader", t, NoBuf, "nil",
                                  <<"ListDirEntries">>, "", dir))
    /\ UNCHANGED <<cache, devDirs, writers>>

\* GetOrLoad after its loader: cache.Set, and ListDirEntries returns
GetOrLoadSet(t) ==
    /\ pc[t] = "Set"
    /\ cache' = CacheSet(cache, loading[t].dir, loading[t].entries)
    /\ loading' = [loading EXCEPT ![t] = NoLoad]
    /\ pc' = [pc EXCEPT ![t] = "idle"]
    /\ CacheStep(t, Ev("ListDirEntries", t, NoBuf, "nil", <<"ListDirEntries">>, "",
                       loading[t].dir))
    /\ UNCHANGED <<devDirs, writers>>

\* OpenWrite: the inner client's writer, wrapped; the device creates the
\* file when the transfer starts.  The cache is left alone until Close.
CachingOpenWrite(t, name) ==
    /\ pc[t] = "idle"
    /\ writers[t] = NoPath
    /\ \/ /\ CacheStep(t, Ev("OpenWrite", t, NoBuf, "NetworkError",
                             <<"OpenWrite">>, "OpenWrite", name))
          /\ UNCHANGED <<writers, devDirs>>
       \/ /\ writers' = [writers EXCEPT ![t] = name]
          /\ devDirs' = [devDirs EXCEPT ![PathDir(name)] = @ \cup {PathBase(name)}]
          /\ CacheStep(t, Ev("OpenWrite", t, NoBuf, "nil", <<"OpenWrite">>, "", name))
    /\ UNCHANGED <<pc, cache, loading>>

\* variant: the directory is invalidated only when the inner Close succeeded
CloseForgetsOnError(t) ==
    /\ pc[t] = "idle"
    /\ writers[t] # NoPath
    /\ LET name == writers[t]
           dir  == PathDir(name)
           had  == CacheGet(cache, dir).found
       IN  \E err \in {"nil", "NetworkError"} :
             /\ cache' = IF err = "nil" THEN RemoveEventually(cache, dir) ELSE cache
             /\ CacheStep(t, Ev("Close", t, NoBuf, err, <<"Close">>,
                                IF err = "nil" THEN "" ELSE "Close", <<name, had>>))
    /\ writers' = [writers EXCEPT ![t] = NoPath]
    /\ UNCHANGED <<pc, devDirs, loading>>

\* onCloseWriter.Close: the inner Close, then onClosed whatever it returned.
\* The event records whether the directory was cached when Close began.
onCloseWriterClose(t) ==
    /\ pc[t] = "idle"
    /\ writers[t] # NoPath
    /\ LET name == writers[t]
           dir  == PathDir(name)
           had  == CacheGet(cache, dir).found
       IN  \E err \in {"nil", "NetworkError"} :
             /\ cache' = RemoveEventually(cache, dir)
             /\ CacheStep(t, Ev("Close", t, NoBuf, err, <<"Close">>,
                                IF err = "nil" THEN "" ELSE "Close", <<name, had>>))
    /\ writers' = [writers EXCEPT ![t] = NoPath]
    /\ UNCHANGED <<pc, devDirs, loading>>

\* something else than this program removes a file from the device
DeviceRemove(dir, n) ==
    /\ n \in devDirs[dir]
    /\ dir # RootPath
    /\ \A t \in Threads : writers[t] = NoPath \/ PathBase(writers[t]) # n
    /\ devDirs' = [devDirs EXCEPT ![dir] = @ \ {n}]
    /\ last' = Ev("DeviceRemove", 0, NoBuf, "nil", <<>>, "", dir \o <<"/">> \o n)
    /\ UNCHANGED <<fileVars, now, cache, writers, loading, fsVars, cliVars>>

NextCache ==
    \/ \E t \in Threads, name \in StatPaths : CachingStat(t, name)
    \/ \E t \in Threads, dir \in DirPaths : CachingListDirEntries(t, dir)
    \/ \E t \in Threads : GetOrLoadSet(t)
    \/ \E t \in Threads, name \in WritePaths : CachingOpenWrite(t, name)
    \/ \E t \in Threads : onCloseWriterClose(t)
    \/ \E dir \in DirPaths : \E n \in NamesIn(dir) : DeviceRemove(dir, n)
    \/ Tick

SpecCache == InitCache /\ [][NextCache]_vars

\* a step of thread t that is Stat(name)
StatStep(t, name) ==
    /\ pc[t] = "idle"
    /\ now' = now
    /\ last'.op = "Stat" /\ last'.t = t /\ last'.arg = name

\* the cache holds a listing of parent(name) that lacks its base name
CachedAbsent(name) ==
    LET entry == CacheGet(cache, PathDir(name))
    IN  entry.found /\ PathBase(name) \notin entry.names

\* C9: when the cache holds a listing of parent(P) without P's base name,
\* Stat(P) returns "no such file" and does not contact the device.
C9_CachedAbsentIsNoEntry ==
    [][\A t \in Threads, name \in StatPaths :
          (StatStep(t, name) /\ CachedAbsent(name))
          => (last'.status = "ENOENT" /\ last'.calls = <<>>)]_vars

\* C9 (amended): the same for every P that is not the root, whose Stat
\* always goes to the device.
C9_CachedAbsentIsNoEntryBelowRoot ==
    [][\A t \in Threads, name \in StatPaths \ {RootPath} :
          (StatStep(t, name) /\ CachedAbsent(name))
          => (last'.status = "ENOENT" /\ last'.calls = <<>>)]_vars

\* Stat answered "no such file" from a stale listing: the device has the file
C9_Witness ==
    /\ last.op = "Stat" /\ last.status = "ENOENT" /\ last.calls = <<>>
    /\ last.arg # RootPath
    /\ CachedAbsent(last.arg)
    /\ PathBase(last.arg) \in devDirs[PathDir(last.arg)]

\* C10: when Close of a writer from OpenWrite(path) has returned, Get of
\* parent(path) misses; OpenWrite itself leaves the cache as it was.
C10_CloseInvalidatesParent ==
    [][\A t \in Threads :
          /\ (writers[t] # NoPath /\ writers'[t] = NoPath)
             => ~CacheGet(cache', PathDir(writers[t])).found
          /\ (writers[t] = NoPath /\ writers'[t] # NoPath) => cache' = cache
      ]_vars

\* a failed Close of a writer whose directory was cached, now invalidated
C10_Witness ==
    /\ last.op = "Close" /\ last.failed = "Close"
    /\ last.arg[2]
    /\ ~CacheGet(cache, PathDir(last.arg[1])).found

\* the cache still keeps for dir an item whose time to live is over
HoldsExpired(dir) == cache[dir].found /\ Expired(cache[dir])

\* a step of thread t that begins ListDirEntries(dir): the Get of GetOrLoad
\* and, on a miss, its loader
ListStep(t, dir) ==
    /\ pc[t] = "idle"
    /\ now' = now
    /\ last'.op \in {"ListDirEntries", "loader"} /\ last'.t = t /\ last'.arg = dir

\* C12: a listing whose time to live is over is returned neither by Get
\* (Stat asks the device) nor by GetOrLoad (the loader is run again).
C12_ExpiredNeverReturned ==
    [][\A t \in Threads :
          /\ \A name \in StatPaths :
                (StatStep(t, name) /\ HoldsExpired(PathDir(name)))
                => last'.calls = <<"Stat">>
          /\ \A dir \in DirPaths :
                (ListStep(t, dir) /\ HoldsExpired(dir))
                => last'.calls = <<"ListDirEntries">>
      ]_vars

\* the loader has run for a directory whose expired item is still kept
C12_Witness ==
    /\ last.op = "loader"
    /\ HoldsExpired(last.arg)
    /\ pc[last.t] = "Set"

----------------------------------------------------------------------------
(* AdbFileSystem: the operations that borrow a client of the pool (SpecFs) *)

MaxLinkResolveDepth == 64

\* Config.DeviceRoot of a mount of the whole device
DeviceRoot == <<>>

\* the names FUSE passes in: relative to the mountpoint, "" for the root
ClientNames == {<<>>, <<"d">>, <<"d", "/", "f">>, <<"d", "/", "g">>}
ClientDirs  == {<<>>, <<"d">>}
ClientFiles == {<<"d", "/", "f">>, <<"d", "/", "g">>}
ShellNames  == {<<"d", "/", "f">>}

\* a slash that follows a slash is dropped
RECURSIVE CollapseSlashes(_)
CollapseSlashes(p) ==
    IF Len(p) < 2 THEN p
    ELSE IF p[1] = "/" /\ p[2] = "/" THEN CollapseSlashes(Tail(p))
    ELSE <<p[1]>> \o CollapseSlashes(Tail(p))

\* path.Join: the non-empty elements separated by slashes, cleaned
PathJoin(elems) ==
    LET ne == SelectSeq(elems, LAMBDA e : e # <<>>)
        RECURSIVE glue(_)
        glue(es) == IF Len(es) = 1 THEN es[1]
                    ELSE es[1] \o <<"/">> \o glue(Tail(es))
    IN  IF ne = <<>> THEN <<>> ELSE PathClean(CollapseSlashes(glue(ne)))

convertClientPathToDevicePath(name) == PathJoin(<<RootPath, DeviceRoot, name>>)

\* the symlinks of the device: the target of each path that is one
NoLinks == [p \in StatPaths |-> NoPath]
\* link tables without a cycle, and with one
ChainTables == { NoLinks, [NoLinks EXCEPT ![FileG] = FileF] }
CycleTables == { [NoLinks EXCEPT ![FileG] = FileG],
                 [NoLinks EXCEPT ![FileF] = FileG, ![FileG] = FileF] }

IsSymlink(path) == links[path] # NoPath

FsInit(tables, sizes) ==
    /\ readOnly \in BOOLEAN
    /\ buffersByPath = [p \in FilePaths |-> NoBuf]
    /\ bufs = [b \in BufIds |-> FreeBuf]
    /\ device = [p \in FilePaths |-> NoFile]
    /\ pc = [t \in Threads |-> "idle"]
    /\ hbuf = [t \in Threads |-> NoBuf]
    /\ hflags = [t \in Threads |-> {}]
    /\ oldest = [b \in BufIds |-> 0]
    /\ now = 1
    /\ last = Ev("Init", 0, NoBuf, "nil", <<>>, "", <<>>)
    /\ cache = [d \in DirPaths |-> NoItem]
    /\ devDirs \in [DirPaths -> SUBSET {<<"d">>, <<"f">>, <<"g">>}]
    /\ \A d \in DirPaths : devDirs[d] \subseteq NamesIn(d)
    /\ <<"d">> \in devDirs[RootPath]
    /\ writers = [t \in Threads |-> NoPath]
    /\ loading = [t \in Threads |-> NoLoad]
    /\ \E size \in sizes : pool = NewPool(size)
    /\ held = [t \in Threads |-> FALSE]
    /\ call = [t \in Threads |-> NoCall]
    /\ links \in tables
    /\ client = NoClient
    /\ CliIdle

InitFs == FsInit(ChainTables, {defaultPoolSize})

FsUnchanged == UNCHANGED <<fileVars, now, writers, loading, links, client, cliVars>>

\* the operation fails before it borrows a client
Reject(t, op, err, name) ==
    /\ last' = Ev(op, t, NoBuf, err, <<>>, "", name)
    /\ UNCHANGED <<cache, devDirs, pool, held, call>>
    /\ FsUnchanged

\* <-fs.quickUseClientPool: blocks while the pool is empty
getQuickUseClient(t, op, name, arg) ==
    /\ pool.n > 0
    /\ pool' = [pool EXCEPT !.n = @ - 1]
    /\ held' = [held EXCEPT ![t] = TRUE]
    /\ call' = [call EXCEPT ![t] = [NoCall EXCEPT !.op = op, !.name = name, !.arg = arg,
                                                 !.at = "body", !.path = name]]
    /\ last' = Ev("getQuickUseClient", t, NoBuf, "nil", <<>>, "", name)
    /\ UNCHANGED <<cache, devDirs>>
    /\ FsUnchanged

\* fs.quickUseClientPool <- client, deferred to the return of the operation
recycleQuickUseClient(t) ==
    /\ pool.n < pool.cap
    /\ pool' = [pool EXCEPT !.n = @ + 1]
    /\ held' = [held EXCEPT ![t] = FALSE]
    /\ call' = [call EXCEPT ![t] = NoCall]

\* the device's shell: a command fails to run, complains (some output), or
\* does its work silently
Shell(cmd, name, arg) ==
    LET dir  == PathDir(name)
        base == PathBase(name)
        has  == base \in devDirs[dir]
        add(d, p)  == [d EXCEPT ![PathDir(p)] = @ \cup {PathBase(p)}]
        drop(d, p) == [d EXCEPT ![PathDir(p)] = @ \ {PathBase(p)}]
        done == CASE cmd = "mkdir" -> IF has THEN {} ELSE {add(devDirs, name)}
                  [] cmd = "mv"    -> IF has THEN {add(drop(devDirs, name), arg)} ELSE {}
                  [] OTHER         -> IF has THEN {drop(devDirs, name)} ELSE {}
    IN  {[err |-> "NetworkError", out |-> FALSE, dirs |-> devDirs]}
        \cup (IF done = {}
              THEN {[err |-> "nil", out |-> TRUE, dirs |-> devDirs]}
              ELSE {[err |-> "nil", out |-> FALSE, dirs |-> d] : d \in done})

\* variant: what the command printed is not looked at
RunShellIgnoresOutput(t, op, cmd, complaint) ==
    /\ call[t].op = op
    /\ \E r \in Shell(cmd, call[t].name, call[t].arg) :
          /\ devDirs' = r.dirs
          /\ last' = [Ev(op, t, NoBuf,
                         r.err,
                         <<cmd>>, IF r.err # "nil" THEN cmd ELSE "",
                         IF cmd = "mv" THEN <<call[t].name, call[t].arg>>
                         ELSE call[t].name)
                      EXCEPT !.stdout = IF r.out THEN cmd \o ": failed" ELSE ""]
    /\ recycleQuickUseClient(t)
    /\ UNCHANGED cache
    /\ FsUnchanged

\* mkdir, rename, rmdir, unlink: the command is run, any output is a failure
RunShell(t, op, cmd, complaint) ==
    /\ call[t].op = op
    /\ \E r \in Shell(cmd, call[t].name, call[t].arg) :
          /\ devDirs' = r.dirs
          /\ last' = [Ev(op, t, NoBuf,
                         IF r.err # "nil" THEN r.err
                         ELSE IF r.out THEN complaint ELSE "nil",
                         <<cmd>>, IF r.err # "nil" THEN cmd ELSE "",
                         IF cmd = "mv" THEN <<call[t].name, call[t].arg>>
                         ELSE call[t].name)
                      EXCEPT !.stdout = IF r.out THEN cmd \o ": failed" ELSE ""]
    /\ recycleQuickUseClient(t)
    /\ UNCHANGED cache
    /\ FsUnchanged

\* variant: no look at Config.ReadOnly
MutatingUnchecked(t, op, name, arg) ==
    /\ call[t] = NoCall
    /\ getQuickUseClient(t, op, name, arg)

\* a mutating operation up to the borrowing of its client
Mutating(t, op, name, arg) ==
    /\ call[t] = NoCall
    /\ IF readOnly
       THEN Reject(t, op, "ErrNotPermitted", name)
       ELSE getQuickUseClient(t, op, name, arg)

Mkdir(t, name) ==
    /\ ~held[t]
    /\ Mutating(t, "Mkdir", convertClientPathToDevicePath(name), NoPath)

mkdir(t) ==
    /\ held[t]
    /\ RunShell(t, "Mkdir", "mkdir", "ErrNoPermission")

Rename(t, oldName, newName) ==
    /\ ~held[t]
    /\ Mutating(t, "Rename", convertClientPathToDevicePath(oldName),
                convertClientPathToDevicePath(newName))

rename(t) ==
    /\ held[t]
    /\ RunShell(t, "Rename", "mv", "ErrNoPermission")

Rmdir(t, name) ==
    /\ ~held[t]
    /\ Mutating(t, "Rmdir", convertClientPathToDevicePath(name), NoPath)

rmdir(t) ==
    /\ held[t]
    /\ RunShell(t, "Rmdir", "rmdir", "syscall.EINVAL")

Unlink(t, name) ==
    /\ ~held[t]
    /\ Mutating(t, "Unlink", convertClientPathToDevicePath(name), NoPath)

unlink(t) ==
    /\ held[t]
    /\ RunShell(t, "Unlink", "rm", "ErrNoPermission")

GetAttr(t, name) ==
    /\ call[t] = NoCall
    /\ getQuickUseClient(t, "GetAttr", convertClientPathToDevicePath(name), NoPath)

\* variant: the device is asked whatever the cache holds
getAttrAsksDevice(t) ==
    /\ call[t].op = "GetAttr"
    /\ \E err \in DeviceStat(call[t].name) :
          last' = Ev("GetAttr", t, NoBuf, err, <<"Stat">>,
                     IF err = "NetworkError" THEN "Stat" ELSE "", call[t].name)
    /\ recycleQuickUseClient(t)
    /\ UNCHANGED <<cache, devDirs>>
    /\ FsUnchanged

\* getAttr: client.Stat, and GetAttr returns
getAttr(t) ==
    /\ call[t].op = "GetAttr"
    /\ \E r \in ClientStat(call[t].name) :
          last' = Ev("GetAttr", t, NoBuf, r.err, r.calls, r.failed, call[t].name)
    /\ recycleQuickUseClient(t)
    /\ UNCHANGED <<cache, devDirs>>
    /\ FsUnchanged

OpenDir(t, name) ==
    /\ call[t] = NoCall
    /\ getQuickUseClient(t, "OpenDir", convertClientPathToDevicePath(name), NoPath)

\* device.ListDirEntries through the caching client, and OpenDir returns
ListDirEntries(t) ==
    /\ call[t].op = "OpenDir"
    /\ LET dir == call[t].name
       IN  IF CacheGet(cache, dir).found
           THEN /\ last' = Ev("OpenDir", t, NoBuf, "nil", <<>>, "", dir)
                /\ UNCHANGED cache
           ELSE \/ /\ last' = Ev("OpenDir", t, NoBuf, "NetworkError",
                                 <<"ListDirEntries">>, "ListDirEntries", dir)
                   /\ UNCHANGED cache
                \/ /\ cache' = CacheSet(cache, dir, NewCachedDirEntries(devDirs[dir]))
                   /\ last' = Ev("OpenDir", t, NoBuf, "nil", <<"ListDirEntries">>, "", dir)
    /\ recycleQuickUseClient(t)
    /\ UNCHANGED devDirs
    /\ FsUnchanged

\* what the readlink command prints when it fails
ReadlinkInvalidArgument  == "readlink: Invalid argument"
ReadlinkPermissionDenied == "readlink: Permission denied"

\* readLink: the readlink command of the device's shell
readLink(path) ==
    {[err |-> "NetworkError", target |-> NoPath, out |-> ""]}
    \cup (IF IsSymlink(path)
          THEN {[err |-> "nil", target |-> links[path], out |-> links[path]],
                [err |-> "ErrNoPermission", target |-> NoPath,
                 out |-> ReadlinkPermissionDenied]}
          ELSE {[err |-> "ErrNotALink", target |-> NoPath,
                 out |-> ReadlinkInvalidArgument]})

\* the errors that are goadb's *util.Err, which carry an error code
UtilErrs == {"NetworkError", "FileNoExist"}

\* variant: the cause is handed on as it is
WrapErrfKeepsCause(cause) == {cause}

\* util.WrapErrf: a new *util.Err with the code of its cause; a cause that
\* is no *util.Err has no code to hand on, and the type assertion may panic
WrapErrf(cause) ==
    IF cause \in UtilErrs THEN {cause} ELSE {"util.Err", "panic"}

\* the readlink commands among the calls of an operation
Readlinks(calls) == Cardinality({i \in DOMAIN calls : calls[i] = "readlink"})

\* readLinkRecursively fails: the operation returns the error
ResolveFails(t, err, calls, failed, out) ==
    /\ last' = [Ev(call[t].op, t, NoBuf, err, calls, failed, call[t].name)
                   EXCEPT !.status = IF err = "panic" THEN "panic" ELSE @,
                          !.stdout = out]
    /\ recycleQuickUseClient(t)

\* readLinkRecursively goes on: into its loop on a symlink, out of it otherwise
ResolveGoesOn(t, path, depth, calls) ==
    /\ call' = [call EXCEPT ![t] = [@ EXCEPT !.path = path, !.currentDepth = depth,
                                             !.calls = calls,
                                             !.at = IF IsSymlink(path) THEN "loop"
                                                    ELSE "resolved"]]
    /\ last' = Ev("readLinkRecursively", t, NoBuf, "nil", calls, "", path)
    /\ UNCHANGED <<pool, held>>

\* readLinkRecursively up to its loop: the Stat of the path
readLinkRecursively(t) ==
    /\ call[t].op \in {"Access", "StatFs"}
    /\ call[t].at = "body"
    /\ \E st \in ClientStat(call[t].path) :
          IF st.err # "nil"
          THEN ResolveFails(t, st.err, st.calls, st.failed, "")
          ELSE ResolveGoesOn(t, call[t].path, 0, st.calls)
    /\ UNCHANGED <<cache, devDirs>>
    /\ FsUnchanged

\* one turn of the loop of readLinkRecursively: the depth check, readLink,
\* and the Stat of the target
followLink(t) ==
    /\ call[t].at = "loop"
    /\ LET c == call[t]
       IN  IF c.currentDepth > MaxLinkResolveDepth
           THEN ResolveFails(t, "ErrLinkTooDeep", c.calls, "", "")
           ELSE \E l \in readLink(c.path) :
                  IF l.err # "nil"
                  THEN \E err \in WrapErrf(l.err) :
                         ResolveFails(t, err, c.calls \o <<"readlink">>, "readlink",
                                      l.out)
                  ELSE \E st \in ClientStat(l.target) :
                         IF st.err # "nil"
                         THEN \E err \in WrapErrf(st.err) :
                                ResolveFails(t, err, c.calls \o <<"readlink">> \o st.calls,
                                             st.failed, "")
                         ELSE ResolveGoesOn(t, l.target, c.currentDepth + 1,
                                            c.calls \o <<"readlink">> \o st.calls)
    /\ UNCHANGED <<cache, devDirs>>
    /\ FsUnchanged

R_OK == "R_OK"
W_OK == "W_OK"

Access(t, name, mode) ==
    /\ call[t] = NoCall
    /\ IF mode = W_OK /\ readOnly
       THEN Reject(t, "Access", "ErrNotPermitted", convertClientPathToDevicePath(name))
       ELSE getQuickUseClient(t, "Access", convertClientPathToDevicePath(name), NoPath)

\* Access once the links are resolved: the target is taken to be accessible
AccessReturn(t) ==
    /\ call[t].op = "Access"
    /\ call[t].at = "resolved"
    /\ last' = Ev("Access", t, NoBuf, "nil", call[t].calls, "", call[t].name)
    /\ recycleQuickUseClient(t)
    /\ UNCHANGED <<cache, devDirs>>
    /\ FsUnchanged

Readlink(t, name) ==
    /\ call[t] = NoCall
    /\ getQuickUseClient(t, "Readlink", convertClientPathToDevicePath(name), NoPath)

ReadlinkReturn(t) ==
    /\ call[t].op = "Readlink"
    /\ \E l \in readLink(call[t].name) :
          last' = [Ev("Readlink", t, NoBuf, l.err, <<"readlink">>,
                      IF l.err = "NetworkError" THEN "readlink" ELSE "", call[t].name)
                      EXCEPT !.stdout = l.out]
    /\ recycleQuickUseClient(t)
    /\ UNCHANGED <<cache, devDirs>>
    /\ FsUnchanged

StatFs(t, name) ==
    /\ call[t] = NoCall
    /\ getQuickUseClient(t, "StatFs", convertClientPathToDevicePath(name), NoPath)

\* StatFs once the links are resolved: the stat command; nil on any failure
StatFsReturn(t) ==
    /\ call[t].op = "StatFs"
    /\ call[t].at = "resolved"
    /\ \E err \in {"nil", "NetworkError"} :
          last' = Ev("StatFs", t, NoBuf, err, call[t].calls \o <<"stat">>,
                     IF err = "nil" THEN "" ELSE "stat", call[t].name)
    /\ recycleQuickUseClient(t)
    /\ UNCHANGED <<cache, devDirs>>
    /\ FsUnchanged

NextFs ==
    \/ \E t \in Threads, name \in ShellNames : Mkdir(t, name)
    \/ \E t \in Threads : mkdir(t)
    \/ \E t \in Threads, o \in ClientFiles, n \in ClientFiles : o # n /\ Rename(t, o, n)
    \/ \E t \in Threads : rename(t)
    \/ \E t \in Threads, name \in ShellNames : Rmdir(t, name)
    \/ \E t \in Threads : rmdir(t)
    \/ \E t \in Threads, name \in ShellNames : Unlink(t, name)
    \/ \E t \in Threads : unlink(t)
    \/ \E t \in Threads, name \in ClientNames : GetAttr(t, name)
    \/ \E t \in Threads : getAttr(t)
    \/ \E t \in Threads, name \in ClientDirs : OpenDir(t, name)
    \/ \E t \in Threads : ListDirEntries(t)
    \/ \E t \in Threads, name \in ClientFiles, mode \in {R_OK, W_OK} : Access(t, name, mode)
    \/ \E t \in Threads : readLinkRecursively(t)
    \/ \E t \in Threads : followLink(t)
    \/ \E t \in Threads : AccessReturn(t)
    \/ Tick

SpecFs == InitFs /\ [][NextFs]_vars

\* SpecLinks: symlinks that may form a cycle, and the operations that
\* resolve them, next to directory listings that fill the cache
InitLinks == FsInit(ChainTables \cup CycleTables, 0..MaxPoolSize)

NextLinks ==
    \/ \E t \in Threads, name \in ClientFiles, mode \in {R_OK, W_OK} : Access(t, name, mode)
    \/ \E t \in Threads : readLinkRecursively(t)
    \/ \E t \in Threads : followLink(t)
    \/ \E t \in Threads : AccessReturn(t)
    \/ \E t \in Threads, name \in ClientFiles : StatFs(t, name)
    \/ \E t \in Threads : StatFsReturn(t)
    \/ \E t \in Threads, name \in ClientFiles : Readlink(t, name)
    \/ \E t \in Threads : ReadlinkReturn(t)
    \/ \E t \in Threads, name \in ClientDirs : OpenDir(t, name)
    \/ \E t \in Threads : ListDirEntries(t)

SpecLinks == InitLinks /\ [][NextLinks]_vars

----------------------------------------------------------------------------
(* Claims about the dispatcher *)

MutatingOps == {"Mkdir", "Rename", "Rmdir", "Unlink"}

\* thread t returns from the operation it borrowed a client for
Returns(t) == held[t] /\ ~held'[t]

\* after the step the cache answers for dir with a listing
ListingKept(dir) == cache'[dir].found /\ now' <= cache'[dir].expires

\* C11: when Mkdir, Rename, Rmdir or Unlink returns having changed the
\* device, the cache no longer answers for the parent directory.
C11_MutationInvalidatesParent ==
    [][\A t \in Threads :
          (Returns(t) /\ call[t].op \in MutatingOps /\ last'.status = "OK")
          => ~ListingKept(PathDir(call[t].name))
      ]_vars

\* C14: GetAttr of a child of a directory whose listing is cached and not
\* expired is answered OK from the listing, without a Stat on the device.
C14_ChildrenAnsweredFromListing ==
    [][\A t \in Threads :
          LET name  == call[t].name
              entry == CacheGet(cache, PathDir(name))
          IN  (Returns(t) /\ call[t].op = "GetAttr" /\ name # RootPath
                 /\ entry.found /\ PathBase(name) \in entry.names)
              => /\ last'.op = "GetAttr" /\ last'.arg = name
                 /\ last'.status = "OK"
                 /\ last'.calls = <<>>
      ]_vars

C14_Witness ==
    /\ last.op = "GetAttr" /\ last.arg = FileF
    /\ last.status = "OK" /\ last.calls = <<>>
    /\ CacheGet(cache, DirD).found /\ <<"f">> \in CacheGet(cache, DirD).names
    /\ CacheGet(cache, RootPath).found

\* C15: on a read-only mount Mkdir, Rename, Rmdir and Unlink return EPERM
\* and run no command: none of them gets as far as borrowing a client.
C15_ReadOnlyMutationsRefused ==
    readOnly =>
        /\ \A t \in Threads : call[t].op \notin MutatingOps
        /\ last.op \in MutatingOps => (last.status = "EPERM" /\ last.calls = <<>>)

C15_Witness ==
    /\ readOnly
    /\ last.op = "Rename" /\ last.status = "EPERM" /\ last.calls = <<>>
    /\ pool.n = PoolClients

\* C17: resolving a path runs the readlink command at most 64 times,
\* whether it is still at it or has returned (with ELOOP on a cycle).
C17_AtMost64Readlinks ==
    /\ \A t \in Threads : Readlinks(call[t].calls) <= 64
    /\ last.op \in {"Access", "StatFs"} => Readlinks(last.calls) <= 64

\* the clients of the pool are in it or with an operation in flight
PoolConserved ==
    pool.n + Cardinality({t \in Threads : held[t]}) = PoolClients

\* C18: the clients in the pool and those borrowed add up to the same
\* number in every state, and with no operation in flight the pool is full.
C18_PoolConservedAndFull ==
    /\ PoolConserved
    /\ (\A t \in Threads : ~held[t]) => pool.n = pool.cap

----------------------------------------------------------------------------
(* Claims about Open, Create and the handles *)

WriteFlags == O_RDWR \cup O_WRONLY \cup O_CREATE \cup O_TRUNC \cup O_APPEND

\* C16: on a read-only mount no handle is opened with a flag that lets it
\* write or create, an Open or Create refused with EPERM leaves the registry
\* and every FileBuffer as they were, and no OpenWrite is issued.
C16_ReadOnlyOpensRefused ==
    /\ [](readOnly =>
            /\ \A t \in Threads : hbuf[t] # NoBuf => ~Contains(hflags[t], WriteFlags)
            /\ last.op = "Create" => last.status = "EPERM"
            /\ last.status = "EPERM" => (last.b = NoBuf /\ last.calls = <<>>)
            /\ "OpenWrite" \notin Range(last.calls))
    /\ [][(readOnly /\ last'.op \in {"Open", "Create"} /\ last'.status = "EPERM")
            => (bufs' = bufs /\ buffersByPath' = buffersByPath /\ device' = device)
         ]_vars

\* a write-capable Open was refused while another handle is open
C16_Witness ==
    /\ readOnly
    /\ last.op = "Open" /\ last.status = "EPERM"
    /\ \E t \in Threads : hbuf[t] # NoBuf /\ bufs[hbuf[t]].refCount > 0

C20_HandlerOncePerZero ==
    [][\A b \in BufIds :
          LET starting == {t \in Threads :
                              pc[t] # "release" /\ pc'[t] = "release" /\ hbuf[t] = b}
          IN  /\ (bufs[b].refCount > 0 /\ bufs'[b].refCount = 0)
                    => Cardinality(starting) = 1
              /\ starting # {} => (bufs[b].refCount > 0 /\ bufs'[b].refCount = 0)
      ]_vars

\* the handler is due for the buffer whose count a Release has just taken
\* to zero, the other thread having released its handle before
C20_Witness ==
    /\ last.op = "DecRefCount"
    /\ pc[last.t] = "release"
    /\ bufs[last.b].refCount = 0
    /\ \E t \in Threads : t # last.t /\ pc[t] = "idle" /\ hbuf[t] = NoBuf

----------------------------------------------------------------------------
(* FileBuffer's reference count, called directly (SpecRef)                 *)

\* a panic ends the process: nothing runs after it
Panicked == \E t \in Threads : pc[t] = "panic"

InitRef ==
    /\ readOnly = FALSE
    /\ buffersByPath = [p \in FilePaths |-> NoBuf]
    /\ bufs = [b \in BufIds |-> [FreeBuf EXCEPT !.alloc = TRUE, !.path = "/d/f"]]
    /\ device = [p \in FilePaths |-> NoFile]
    /\ pc = [t \in Threads |-> "idle"]
    /\ hbuf = [t \in Threads |-> NoBuf]
    /\ hflags = [t \in Threads |-> {}]
    /\ oldest = [b \in BufIds |-> 0]
    /\ now = 1
    /\ last = Ev("Init", 0, NoBuf, "nil", <<>>, "", <<>>)
    /\ CacheIdle
    /\ FsIdle

RefStep(t, b, newCount, ev) ==
    /\ bufs' = [bufs EXCEPT ![b].refCount = newCount]
    /\ last' = ev
    /\ UNCHANGED <<readOnly, buffersByPath, device, hbuf, hflags, oldest, now>>
    /\ UNCHANGED <<cacheVars, fsVars, cliVars>>

\* FileBuffer.IncRefCount
RefCountInc(t, b) ==
    /\ ~Panicked
    /\ bufs[b].refCount < MaxRefs
    /\ RefStep(t, b, bufs[b].refCount + 1,
               Ev("IncRefCount", t, b, "nil", <<>>, "", bufs[b].refCount + 1))
    /\ UNCHANGED pc

\* variant: the new count is not looked at before the handler is thought of
DecRefCountUnchecked(t, b) ==
    /\ ~Panicked
    /\ LET newCount == bufs[b].refCount - 1
       IN  RefStep(t, b, newCount,
                   Ev("DecRefCount", t, b, "nil",
                      IF newCount = 0 THEN <<"ZeroRefCountHandler">> ELSE <<>>, "",
                      newCount))
    /\ UNCHANGED pc

\* FileBuffer.DecRefCount: the atomic add, the panic on a count below zero,
\* the handler on a count of zero
DecRefCount(t, b) ==
    /\ ~Panicked
    /\ LET newCount == bufs[b].refCount - 1
       IN  IF newCount < 0
           THEN /\ RefStep(t, b, newCount,
                           [op |-> "DecRefCount", t |-> t, b |-> b, status |-> "panic", stdout |-> "",
                            calls |-> <<>>, failed |-> "", arg |-> newCount])
                /\ pc' = [pc EXCEPT ![t] = "panic"]
           ELSE /\ RefStep(t, b, newCount,
                           Ev("DecRefCount", t, b, "nil",
                              IF newCount = 0 THEN <<"ZeroRefCountHandler">> ELSE <<>>,
                              "", newCount))
                /\ UNCHANGED pc

NextRef ==
    \/ \E t \in Threads, b \in BufIds : RefCountInc(t, b)
    \/ \E t \in Threads, b \in BufIds : DecRefCount(t, b)

SpecRef == InitRef /\ [][NextRef]_vars

\* C21: while the process runs no FileBuffer has a negative reference
\* count, and a DecRefCount on a count of zero panics without calling
\* the handler.
C21_RefCountNeverNegative ==
    /\ [](~Panicked => \A b \in BufIds : bufs[b].refCount >= 0)
    /\ [][\A b \in BufIds :
            (bufs[b].refCount = 0 /\ last'.op = "DecRefCount" /\ last'.b = b)
            => (Panicked' /\ last'.status = "panic" /\ last'.calls = <<>>)
         ]_vars

\* a count was raised, brought back to zero, and decremented once more
C21_Witness ==
    /\ Panicked
    /\ last.op = "DecRefCount" /\ last.arg = -1
    /\ \E b \in BufIds : b # last.b /\ bufs[b].refCount > 0

----------------------------------------------------------------------------
(* More claims about the registry (Spec) *)

\* every handle has been released and every handler has returned
Quiescent == \A t \in Threads : hbuf[t] = NoBuf /\ pc[t] = "idle"

\* C22: once the last handle is released the registry is empty and no
\* FileBuffer is left, so the next successful Open or Create constructs a
\* buffer (the device is asked) whose reference count is 1.
C22_OpenAfterReleaseConstructs ==
    /\ [](Quiescent =>
            /\ \A p \in FilePaths : buffersByPath[p] = NoBuf
            /\ \A b \in BufIds : bufs[b] = FreeBuf)
    /\ [][\A t \in Threads :
            (Quiescent /\ last.op = "release" /\ hbuf'[t] # NoBuf)
            => /\ bufs'[hbuf'[t]].refCount = 1
               /\ buffersByPath'[bufs'[hbuf'[t]].path] = hbuf'[t]
               /\ last'.calls # <<>> /\ last'.calls[1] = "Stat"
         ]_vars

\* a file that an earlier buffer created on the device is opened again,
\* with no other handle around, and the buffer is constructed
C22_Witness ==
    /\ last.op = "Open" /\ last.status = "OK"
    /\ last.calls = <<"Stat", "OpenRead">>
    /\ device["/d/f"] = FileOf(<<>>)
    /\ bufs[last.b].refCount = 1
    /\ \A t \in Threads : t # last.t => (hbuf[t] = NoBuf /\ pc[t] = "idle")

----------------------------------------------------------------------------
(* goadbDeviceClient: the calls that reach the adb server (SpecClient)     *)

InitClient ==
    /\ readOnly = FALSE
    /\ buffersByPath = [p \in FilePaths |-> NoBuf]
    /\ bufs = [b \in BufIds |-> FreeBuf]
    /\ device = [p \in FilePaths |-> NoFile]
    /\ pc = [t \in Threads |-> "idle"]
    /\ hbuf = [t \in Threads |-> NoBuf]
    /\ hflags = [t \in Threads |-> {}]
    /\ oldest = [b \in BufIds |-> 0]
    /\ now = 1
    /\ last = Ev("Init", 0, NoBuf, "nil", <<>>, "", <<>>)
    /\ CacheIdle
    /\ pool = NewPool(defaultPoolSize)
    /\ held = [t \in Threads |-> FALSE]
    /\ call = [t \in Threads |-> NoCall]
    /\ links = <<>>
    /\ \E h \in BOOLEAN : client = [NoClient EXCEPT !.handler = h]
    /\ CliIdle

\* what the wrapped adb.DeviceClient returns
InnerErrors == IF client.connected THEN {"nil", "NetworkError"} ELSE {"DeviceNotFound"}

\* handleDeviceNotFound: the handler, if there is one, is called
handleDeviceNotFound(c) ==
    IF c.handler THEN [c EXCEPT !.disconnects = @ + 1] ELSE c

\* a method of goadbDeviceClient: the wrapped call and, where the method
\* looks for it (handles), what is done about a device that is not found
goadbCall(t, op, arg, handles) ==
    /\ client.disconnects < MaxDisconnects
    /\ \E err \in InnerErrors :
          LET notFound == handles /\ err = "DeviceNotFound"
          IN  /\ client' = IF notFound THEN handleDeviceNotFound(client) ELSE client
              /\ last' = Ev(op, t, NoBuf, err,
                            IF notFound /\ client.handler
                            THEN <<op, "deviceDisconnectedHandler">> ELSE <<op>>,
                            IF err = "nil" THEN "" ELSE op, <<arg, err>>)
    /\ UNCHANGED <<fileVars, cacheVars, pool, held, call, links, cliVars, now>>

goadbOpenRead(t, path) ==
    /\ pc[t] = "idle"
    /\ goadbCall(t, "OpenRead", path, TRUE)

goadbOpenWrite(t, path) ==
    /\ pc[t] = "idle"
    /\ goadbCall(t, "OpenWrite", path, FALSE)

goadbStat(t, path) ==
    /\ pc[t] = "idle"
    /\ goadbCall(t, "Stat", path, TRUE)

goadbListDirEntries(t, path) ==
    /\ pc[t] = "idle"
    /\ goadbCall(t, "ListDirEntries", path, TRUE)

\* RunCommand is the wrapped client's own method
goadbRunCommand(t, cmd) ==
    /\ pc[t] = "idle"
    /\ goadbCall(t, "RunCommand", cmd, FALSE)

\* the device is unplugged
Disconnect ==
    /\ client.connected
    /\ client' = [client EXCEPT !.connected = FALSE]
    /\ last' = Ev("Disconnect", 0, NoBuf, "nil", <<>>, "", <<>>)
    /\ UNCHANGED <<fileVars, cacheVars, pool, held, call, links, cliVars, now>>

ShellCommands == {<<"mkdir">>, <<"mv">>, <<"readlink">>}

NextClient ==
    \/ \E t \in Threads, path \in StatPaths : goadbOpenRead(t, path)
    \/ \E t \in Threads, path \in StatPaths : goadbOpenWrite(t, path)
    \/ \E t \in Threads, path \in StatPaths : goadbStat(t, path)
    \/ \E t \in Threads, path \in DirPaths : goadbListDirEntries(t, path)
    \/ \E t \in Threads, cmd \in ShellCommands : goadbRunCommand(t, cmd)
    \/ Disconnect

SpecClient == InitClient /\ [][NextClient]_vars

ClientOps == {"OpenRead", "OpenWrite", "Stat", "ListDirEntries", "RunCommand"}

\* C23: a call of the device client that finds the device gone has called
\* the disconnect handler, and returns the error.
C23_DeviceNotFoundCallsHandler ==
    (last.op \in ClientOps /\ client.handler /\ ~client.connected)
    => /\ last.arg[2] = "DeviceNotFound" /\ last.status = "EIO"
       /\ "deviceDisconnectedHandler" \in Range(last.calls)

----------------------------------------------------------------------------
(* GrowableByteSlice on its own, from new(GrowableByteSlice) (SpecSlice):  *)
(* the slice is bufs[1].buffer, and lengths are those of real use, where   *)
(* the capacity is 512 (ReadFrom) or at least 1024 (reallocate).           *)

SliceLens == {k * BlockLen : k \in 0..MaxBlocks}

Filled(n) == [i \in 1..n |-> 1]

SliceData == {Filled(BlockLen)}

InitSlice ==
    /\ readOnly = FALSE
    /\ buffersByPath = [p \in FilePaths |-> NoBuf]
    /\ bufs = [b \in BufIds |-> FreeBuf]
    /\ device = [p \in FilePaths |-> NoFile]
    /\ pc = [t \in Threads |-> "idle"]
    /\ hbuf = [t \in Threads |-> NoBuf]
    /\ hflags = [t \in Threads |-> {}]
    /\ oldest = [b \in BufIds |-> 0]
    /\ now = 1
    /\ last = Ev("Init", 0, NoBuf, "nil", <<>>, "", <<>>)
    /\ CacheIdle
    /\ FsIdle

SliceStep(op, s, arg) ==
    /\ bufs' = [bufs EXCEPT ![1].buffer = s]
    /\ last' = Ev(op, 1, 1, "nil", <<>>, "", arg)
    /\ UNCHANGED <<readOnly, buffersByPath, device, pc, hbuf, hflags, oldest, now>>
    /\ UNCHANGED <<cacheVars, fsVars, cliVars>>

GrowableResize(newLen) ==
    /\ newLen >= 0
    /\ SliceStep("Resize", Resize(bufs[1].buffer, newLen), <<newLen>>)

GrowableWriteAt(data, off) ==
    /\ off + Len(data) <= MaxBlocks * BlockLen
    /\ SliceStep("WriteAt", SliceWriteAt(bufs[1].buffer, data, off), <<off, Len(data)>>)

GrowableReadFrom(data) ==
    /\ \E c \in ReadAllCaps(data) :
          SliceStep("ReadFrom", SliceReadFrom(data, c), <<Len(data)>>)

NextSlice ==
    \/ \E newLen \in SliceLens : GrowableResize(newLen)
    \/ \E data \in SliceData, off \in SliceLens : GrowableWriteAt(data, off)
    \/ \E data \in {<<>>, Filled(2 * BlockLen)} : GrowableReadFrom(data)

SpecSlice == InitSlice /\ [][NextSlice]_vars

\* C24: a Resize or WriteAt that makes the slice longer leaves zero in every
\* byte of the new range that it does not write itself.
C24_ExtensionReadsZero ==
    [][LET old == Len(bufs[1].buffer.data)
           new == bufs'[1].buffer.data
       IN  (last'.op \in {"Resize", "WriteAt"} /\ Len(new) > old)
           => \A i \in (old + 1)..Len(new) :
                 \/ /\ last'.op = "WriteAt"
                    /\ i > last'.arg[1]
                    /\ i <= last'.arg[1] + last'.arg[2]
                 \/ new[i] = 0]_vars

----------------------------------------------------------------------------
(* More claims about the dispatcher (SpecFs) *)

\* C25: on a writable mount Mkdir, Rename, Rmdir and Unlink return OK exactly
\* when the command ran and printed nothing; when it printed something Rmdir
\* returns EINVAL and the other three return EACCES.
C25_OkIffNoOutput ==
    (~readOnly /\ last.op \in MutatingOps)
    => /\ last.calls \in {<<"mkdir">>, <<"mv">>, <<"rmdir">>, <<"rm">>}
       /\ last.status = "OK" <=> (last.failed = "" /\ last.stdout = "")
       /\ (last.failed = "" /\ last.stdout # "")
          => last.status = (IF last.op = "Rmdir" THEN "EINVAL" ELSE "EACCES")

C25_Witness ==
    /\ ~readOnly
    /\ last.op = "Rmdir" /\ last.calls = <<"rmdir">>
    /\ last.failed = "" /\ last.stdout # "" /\ last.status = "EINVAL"

----------------------------------------------------------------------------
(* More claims about the handles (Spec) *)

\* C26: Flush on a handle opened without write access returns OK, calls the
\* device not at all and leaves buffer and device as they are, dirty or not.
C26_ReadOnlyFlushIsNoOp ==
    [][(last'.op = "Flush" /\ last' # last /\ ~CanWrite(hflags[last'.t]))
          => /\ last'.status = "OK"
             /\ last'.calls = <<>>
             /\ bufs' = bufs
             /\ device' = device]_vars

C26_Witness ==
    /\ last.op = "Flush" /\ last.status = "OK" /\ last.calls = <<>>
    /\ ~CanWrite(hflags[last.t])
    /\ hbuf[last.t] = last.b
    /\ DirtyIsSet(bufs[last.b].dirty)

----------------------------------------------------------------------------
(* The construction of a FileBuffer, seen through Open and Create (Spec) *)

\* a step in which t's Open or Create constructed a buffer
Constructs(t) ==
    /\ hbuf[t] = NoBuf
    /\ hbuf'[t] # NoBuf
    /\ last'.calls # <<>>

SyncSteps == {"OpenRead", "ReadAll", "OpenWrite", "WriteTo", "Close"}

\* C27: an Open or Create whose initial load or save failed returns an
\* error, hands out no handle and puts no buffer into the registry.
C27_FailedInitialSyncFailsOpen ==
    (last.op \in {"Open", "Create"} /\ last.failed \in SyncSteps)
    => /\ last.status # "OK"
       /\ last.b = NoBuf
       /\ hbuf[last.t] = NoBuf

\* C28 as stated: a buffer constructed with O_CREATE or O_TRUNC among the
\* flags is left empty and no OpenRead is issued; only without both flags is
\* the file loaded.
C28_CreateOrTruncSkipsLoad ==
    [][\A t \in Threads : Constructs(t) =>
          LET f == bufs'[hbuf'[t]]
          IN  IF Contains(hflags'[t], O_CREATE \cup O_TRUNC)
              THEN f.buffer.data = <<>> /\ "OpenRead" \notin Range(last'.calls)
              ELSE "OpenRead" \in Range(last'.calls)]_vars

\* C28: the buffer is left empty, with no OpenRead, when O_TRUNC is set or
\* when O_CREATE is set and the file is not on the device; in every other
\* case, O_CREATE on a file that exists included, the file is loaded.
C28_NewOrTruncSkipsLoad ==
    [][\A t \in Threads : Constructs(t) =>
          LET f    == bufs'[hbuf'[t]]
              file == device[f.path]
          IN  IF Contains(hflags'[t], O_TRUNC)
                 \/ (Contains(hflags'[t], O_CREATE) /\ ~file.exists)
              THEN /\ f.buffer.data = <<>>
                   /\ last'.calls = <<"Stat", "OpenWrite">>
              ELSE /\ last'.calls = <<"Stat", "OpenRead">>
                   /\ last'.failed = "" => f.buffer.data = file.data]_vars

C28_Witness ==
    /\ last.op = "Open" /\ last.status = "OK" /\ last.failed = ""
    /\ hbuf[last.t] = last.b
    /\ Contains(hflags[last.t], O_CREATE)
    /\ last.calls = <<"Stat", "OpenRead">>
    /\ bufs[last.b].buffer.data = <<2, 2>>

\* t's Open or Create constructed a buffer with O_CREATE for a file that was
\* not on the device
CreatesNew(t) ==
    /\ Constructs(t)
    /\ Contains(hflags'[t], O_CREATE)
    /\ ~device[bufs'[hbuf'[t]].path].exists

\* C29 as stated: a buffer constructed with O_CREATE for a file that is not
\* on the device is dirty when the construction returns.
C29_NewFileLeftDirty ==
    [][\A t \in Threads : CreatesNew(t) => DirtyIsSet(bufs'[hbuf'[t]].dirty)]_vars

\* C29: such a buffer is marked dirty before the initial Sync, so that the
\* construction itself saves the empty file; when the save succeeds the file
\* is on the device and the buffer is clean, when it fails the buffer stays
\* dirty for the first Flush to try again.
C29_NewFileSavedAtOnce ==
    [][\A t \in Threads : CreatesNew(t) =>
          LET f == bufs'[hbuf'[t]]
          IN  /\ last'.calls = <<"Stat", "OpenWrite">>
              /\ f.buffer.data = <<>>
              /\ IF last'.failed = ""
                 THEN ~DirtyIsSet(f.dirty) /\ device'[f.path] = FileOf(<<>>)
                 ELSE DirtyIsSet(f.dirty)]_vars

C29_Witness ==
    /\ last.op = "Open" /\ last.status = "OK" /\ last.failed = ""
    /\ hbuf[last.t] = last.b
    /\ Contains(hflags[last.t], O_CREATE)
    /\ last.calls = <<"Stat", "OpenWrite">>
    /\ ~DirtyIsSet(bufs[last.b].dirty)
    /\ device[bufs[last.b].path] = FileOf(<<>>)

\* the event of an Open or Create that failed
Failed(e) == e.op \in {"Open", "Create"} /\ e.status # "OK"

\* C30: an Open or Create that fails leaves the registry's map, every
\* buffer (its refcount with it) and every handle as they were; and after
\* one that failed while constructing (its Stat failed) the Open or Create
\* that comes next constructs again, starting with Stat, unless its flags
\* are refused before that.
C30_FailedOpenLeavesRegistry ==
    [][/\ Failed(last')
          => /\ buffersByPath' = buffersByPath
             /\ bufs' = bufs
             /\ hbuf' = hbuf
       /\ (Failed(last) /\ last.calls = <<"Stat">> /\ last'.op \in {"Open", "Create"})
          => \/ last'.status = "EPERM" /\ last'.calls = <<>>
             \/ /\ last'.calls # <<>>
                /\ last'.calls[1] = "Stat"
                /\ last'.status = "OK" => bufs'[last'.b].refCount = 1]_vars

C30_Witness ==
    /\ last.op = "Open" /\ last.status = "ENOENT" /\ last.calls = <<"Stat">>
    /\ ~device["/d/f"].exists
    /\ \A p \in FilePaths : buffersByPath[p] = NoBuf
    /\ \A b \in BufIds : bufs[b] = FreeBuf
    /\ now > 1

----------------------------------------------------------------------------
(* Reloading and truncating a buffer (SpecFile) *)

\* C31: a reload that fails, at OpenRead or part-way through the stream,
\* leaves the buffer's contents as they were before it.
C31_FailedReloadKeepsContents ==
    [][(last'.op = "Fsync" /\ last' # last /\ last'.failed \in {"OpenRead", "ReadAll"})
          => bufs'[last'.b].buffer.data = bufs[last'.b].buffer.data]_vars

\* C32: a Resize to a smaller length leaves the bytes below the new length
\* as they were.
C32_ShrinkKeepsPrefix ==
    [][LET old == bufs[1].buffer.data
           new == bufs'[1].buffer.data
       IN  (last'.op = "Resize" /\ last'.arg[1] < Len(old))
           => /\ Len(new) = last'.arg[1]
              /\ \A i \in 1..Len(new) : new[i] = old[i]]_vars

----------------------------------------------------------------------------
(* The client pool once more (SpecFs) *)

\* C33: getQuickUseClient has to wait (the pool is empty) only when as many
\* operations hold a client as the pool has places, ConnectionPoolSize or 1.
C33_WaitsOnlyWhenAllHeld ==
    pool.n = 0 => Cardinality({t \in Threads : held[t]}) = pool.cap

----------------------------------------------------------------------------
(* The buffer's lock and its dirty timestamp (Spec).  WriteAt, SetSize,    *)
(* Sync, Flush and SyncIfTooDirty hold the lock for all they do, which is  *)
(* one step here; initialize and IsDirty touch the timestamp without it.   *)

\* C34: the two accesses made without the lock cannot meet another
\* operation on the buffer: when release calls IsDirty, every other thread
\* that still refers to the buffer is waiting in release itself, and while
\* initialize runs no other thread refers to the buffer it builds.
C34_UnlockedAccessIsAlone ==
    [][\A t \in Threads :
          /\ (pc[t] = "release" /\ last'.op = "release" /\ last'.t = t
              /\ last'.arg = <<"IsDirty">>)
             => \A u \in Threads \ {t} : hbuf[u] = hbuf[t] => pc[u] = "release"
          /\ Constructs(t)
             => \A u \in Threads \ {t} : hbuf[u] # hbuf'[t]]_vars

C34_Witness ==
    /\ last.op = "release" /\ last.arg = <<"IsDirty">>
    /\ \E u \in Threads : u # last.t /\ hbuf[u] = last.b /\ pc[u] = "release"
    /\ bufs[last.b].refCount = 0

----------------------------------------------------------------------------
(* DirtyTimestamp inside the buffer (SpecFile) *)

\* C35: the instant the timestamp holds is that of the oldest modification
\* not yet written back (so that is what HasBeenDirtyFor measures from): a
\* Set on a timestamp that is set leaves the instant alone, and Clear leaves
\* nothing of it.
C35_InstantOfOldestModification ==
    /\ [](\A b \in BufIds : bufs[b].alloc => bufs[b].dirty = oldest[b])
    /\ [][(last'.op \in {"WriteAt", "SetSize"} /\ last' # last
           /\ DirtyIsSet(bufs[last'.b].dirty))
             => bufs'[last'.b].dirty = bufs[last'.b].dirty]_vars
    /\ [](\A b \in BufIds : ~DirtyIsSet(bufs[b].dirty)
             => ~HasBeenDirtyFor(bufs[b].dirty, 0, now))

C35_Witness ==
    /\ last.op \in {"WriteAt", "SetSize"}
    /\ DirtyIsSet(bufs[last.b].dirty)
    /\ bufs[last.b].dirty < now
    /\ oldest[last.b] = bufs[last.b].dirty

----------------------------------------------------------------------------
(* The command: unmounting the server (SpecMount).  main serves until a    *)
(* signal arrives or the server is done, and unmounts on its way out; the  *)
(* disconnect handler, called by any thread of the file system, starts a   *)
(* goroutine that unmounts.                                                *)

InitMount ==
    /\ readOnly = FALSE
    /\ buffersByPath = [p \in FilePaths |-> NoBuf]
    /\ bufs = [b \in BufIds |-> FreeBuf]
    /\ device = [p \in FilePaths |-> NoFile]
    /\ pc = [t \in Threads |-> "idle"]
    /\ hbuf = [t \in Threads |-> NoBuf]
    /\ hflags = [t \in Threads |-> {}]
    /\ oldest = [b \in BufIds |-> 0]
    /\ now = 1
    /\ last = Ev("Init", 0, NoBuf, "nil", <<>>, "", <<>>)
    /\ CacheIdle
    /\ FsIdle

MountStep(s, ev) ==
    /\ server' = s
    /\ last' = ev
    /\ UNCHANGED <<fileVars, cacheVars, fsVars, logEntry, tracker, now>>

\* variant: Unmount whatever the flag says
unmountServerUnguarded(s) ==
    [s EXCEPT !.unmounted = TRUE, !.unmounts = @ + 1]

\* unmountServer: unmounted.CompareAndSwap(false, true), then server.Unmount()
unmountServer(s) ==
    IF ~s.unmounted
    THEN [s EXCEPT !.unmounted = TRUE, !.unmounts = @ + 1]
    ELSE s

\* handleDeviceDisconnected: go func() { ... }()
handleDeviceDisconnected(t) ==
    /\ server.main # "exited"
    /\ server.spawned < MaxDisconnects
    /\ MountStep([server EXCEPT !.spawned = @ + 1, !.checking = @ + 1],
                 Ev("handleDeviceDisconnected", t, NoBuf, "nil", <<>>, "", <<>>))

\* the goroutine: if !unmounted.Value() { ...
GoroutineChecks ==
    /\ server.main # "exited"
    /\ server.checking > 0
    /\ MountStep([server EXCEPT !.checking = @ - 1,
                                !.passed = IF server.unmounted THEN @ ELSE @ + 1],
                 Ev("unmounted.Value", 0, NoBuf, "nil", <<>>, "",
                    <<server.unmounted>>))

\* the goroutine: ... unmountServer() }
GoroutineUnmounts ==
    /\ server.main # "exited"
    /\ server.passed > 0
    /\ LET s == unmountServer([server EXCEPT !.passed = @ - 1])
       IN  MountStep(s, Ev("unmountServer", 0, NoBuf, "nil",
                           IF s.unmounts > server.unmounts THEN <<"Unmount">> ELSE <<>>,
                           "", <<"goroutine">>))

\* main leaves its loop: a signal, or serverDone was closed
MainReturns(why) ==
    /\ server.main = "serving"
    /\ why = "serverDone" => server.unmounted
    /\ MountStep([server EXCEPT !.main = "returning"],
                 Ev("main", 0, NoBuf, "nil", <<>>, "", <<why>>))

\* defer unmountServer(), and the process is over
MainUnmounts ==
    /\ server.main = "returning"
    /\ LET s == unmountServer([server EXCEPT !.main = "exited"])
       IN  MountStep(s, Ev("unmountServer", 0, NoBuf, "nil",
                           IF s.unmounts > server.unmounts THEN <<"Unmount">> ELSE <<>>,
                           "", <<"main">>))

NextMount ==
    \/ \E t \in Threads : handleDeviceDisconnected(t)
    \/ GoroutineChecks
    \/ GoroutineUnmounts
    \/ \E why \in {"signal", "serverDone"} : MainReturns(why)
    \/ MainUnmounts

SpecMount == InitMount /\ [][NextMount]_vars

\* C36: Unmount is called at most once, and exactly by the call of
\* unmountServer that found the flag unset.
C36_UnmountAtMostOnce ==
    /\ server.unmounts <= 1
    /\ server.unmounted <=> server.unmounts = 1

C36_Witness ==
    /\ server.unmounts = 1
    /\ server.main = "exited"
    /\ server.spawned = MaxDisconnects
    /\ last.op = "unmountServer" /\ last.calls = <<>>


----------------------------------------------------------------------------
(* A link that may not be read (SpecLinks) *)

\* C37: when readlink reports "Permission denied" for a link met while
\* Access or StatFs resolves a path, the operation fails with the errno
\* EACCES of the NoPermission kind.
C37_DeniedLinkIsEACCES ==
    (last.op \in {"Access", "StatFs"} /\ last.stdout = ReadlinkPermissionDenied)
        => last.status = "EACCES"

\* the same output met by Readlink itself, where nothing wraps the error
C37_ReadlinkItselfDenied ==
    last.op = "Readlink" /\ last.stdout = ReadlinkPermissionDenied
        /\ last.status = "EACCES"


----------------------------------------------------------------------------
(* SpecLog: one LogEntry and the methods that report to it.  calls and     *)
(* hits are history: how often each method was called on the entry, and    *)
(* what the calls of CacheUsed reported.                                    *)

InitLog == InitMount

LogStep(r, ev) ==
    /\ logEntry' = r
    /\ last' = ev
    /\ UNCHANGED <<fileVars, cacheVars, fsVars, server, tracker, now>>

\* the call of method m with the input x that made the entry r
LogEv(m, x, r) ==
    [Ev(m, 0, NoBuf, "nil", <<>>, "", <<x>>)
        EXCEPT !.status = IF r.panicked THEN "panic" ELSE "OK"]

Called(r, m) == [r EXCEPT !.calls[m] = @ + 1]

StartOperation ==
    LogStep(NoLogEntry, Ev("StartOperation", 0, NoBuf, "nil", <<>>, "", <<>>))

Error(r, err) ==
    IF r.err # "nil"
    THEN [r EXCEPT !.panicked = TRUE]
    ELSE [r EXCEPT !.err = err]

Result(r, result) ==
    IF r.result # ""
    THEN [r EXCEPT !.panicked = TRUE]
    ELSE [r EXCEPT !.result = result]

Status(r, status) ==
    IF r.status # ""
    THEN [r EXCEPT !.panicked = TRUE]
    ELSE [r EXCEPT !.status = status]

\* variant: the report of the last call stands
CacheUsedOverwrites(r, hit) ==
    [r EXCEPT !.cacheUsed = TRUE, !.cacheHit = hit, !.hits = Append(@, hit)]

CacheUsed(r, hit) ==
    [r EXCEPT !.cacheUsed = TRUE, !.cacheHit = @ \/ hit, !.hits = Append(@, hit)]

\* a method is called on the entry of an operation that is under way
Reports(m, x) ==
    /\ ~logEntry.panicked
    /\ logEntry.calls[m] < MaxCalls
    /\ LET r == CASE m = "Error"     -> Error(logEntry, x)
                  [] m = "Result"    -> Result(logEntry, x)
                  [] m = "Status"    -> Status(logEntry, x)
                  [] m = "CacheUsed" -> CacheUsed(logEntry, x)
       IN  LogStep(Called(r, m), LogEv(m, x, r))

CallsError     == \E err \in {"NetworkError", "ErrNotPermitted"} : Reports("Error", err)
CallsResult    == \E result \in {"", "target"} : Reports("Result", result)
CallsStatus    == \E status \in {"OK", "EIO"} : Reports("Status", status)
CallsCacheUsed == \E hit \in BOOLEAN : Reports("CacheUsed", hit)

NextLog ==
    \/ StartOperation
    \/ CallsError
    \/ CallsResult
    \/ CallsStatus
    \/ CallsCacheUsed

SpecLog == InitLog /\ [][NextLog]_vars

----------------------------------------------------------------------------
(* Handles without the access an operation needs (SpecFile) *)

\* the handler of thread t refuses: EPERM, no device call, and the buffer
\* and the device are as they were
Refused(t) ==
    /\ last'.status = "EPERM"
    /\ last'.calls = <<>>
    /\ last'.b = hbuf[t]
    /\ bufs' = bufs
    /\ device' = device
    /\ pc' = pc

\* C39: Read on a handle opened write-only, and Write and Truncate on a
\* handle opened without write access, return EPERM, leave the contents,
\* the size and the dirty timestamp of the shared buffer as they were, and
\* call the device not at all.
C39_RefusedLeavesBuffer ==
    [][\A t \in FileThreads :
          (HandleIdle(t) /\ last' # last /\ last'.t = t)
             => /\ (last'.op = "Read" /\ ~CanRead(hflags[t])) => Refused(t)
                /\ (last'.op \in {"Write", "WriteAt", "Truncate", "SetSize"}
                    /\ ~CanWrite(hflags[t]))
                      => (last'.op \in {"Write", "Truncate"} /\ Refused(t))]_vars

C39_Witness ==
    /\ last.op = "Read" /\ last.status = "EPERM"
    /\ hbuf[last.t] = last.b
    /\ ~CanRead(hflags[last.t])
    /\ DirtyIsSet(bufs[last.b].dirty)
    /\ bufs[last.b].buffer.data # <<>>


----------------------------------------------------------------------------
(* SpecTracker: the ProcessTracker of the automounter.  A process is       *)
(* "running" from the go statement of Go until its function returns,       *)
(* "exited" until sweep has removed it.  go[t] is the key of the Go call   *)
(* of thread t that has looked at the base context and not yet taken the   *)
(* lock.                                                                    *)

InitTracker == InitMount

TrackerStep(tr, ev) ==
    /\ tracker' = tr
    /\ last' = ev
    /\ UNCHANGED <<fileVars, cacheVars, fsVars, server, logEntry, now>>

\* Go up to the lock: isContextAlreadyDone(t.baseContext)
Go(t, key) ==
    /\ tracker.go[t] = ""
    /\ IF tracker.done
       THEN TrackerStep(tracker, Ev("Go", t, NoBuf, "process tracker has been shutdown",
                                    <<>>, "", <<key, tracker.shutdown>>))
       ELSE TrackerStep([tracker EXCEPT !.go[t] = key],
                        Ev("isContextAlreadyDone", t, NoBuf, "nil", <<>>, "",
                           <<key, tracker.shutdown>>))

\* the rest of Go, under the lock: the entry, processWaiter.Add(1) and the
\* go statement
GoLocked(t) ==
    /\ tracker.go[t] # ""
    /\ LET key == tracker.go[t] IN
       IF tracker.processesByKey[key] # "none"
       THEN TrackerStep([tracker EXCEPT !.go[t] = ""],
                        Ev("Go", t, NoBuf, "process already running", <<>>, "",
                           <<key, tracker.shutdown>>))
       ELSE TrackerStep([tracker EXCEPT !.go[t] = "",
                                        !.processesByKey[key] = "running",
                                        !.processWaiter = @ + 1],
                        Ev("Go", t, NoBuf, "nil", <<"proc">>, "",
                           <<key, tracker.shutdown>>))

\* the function of a process returns, of itself or because its context is
\* done, and the goroutine calls cancelFunc
ProcessExits(key) ==
    /\ tracker.processesByKey[key] = "running"
    /\ TrackerStep([tracker EXCEPT !.processesByKey[key] = "exited"],
                   Ev("proc", 0, NoBuf, "nil", <<>>, "", <<key, tracker.shutdown>>))

\* sweep, deferred by the goroutine
sweep(key) ==
    /\ tracker.processesByKey[key] = "exited"
    /\ TrackerStep([tracker EXCEPT !.processesByKey[key] = "none",
                                   !.processWaiter = @ - 1],
                   Ev("sweep", 0, NoBuf, "nil", <<>>, "", <<key, tracker.shutdown>>))

\* Shutdown up to processWaiter.Wait: t.cancelFunc()
Shutdown ==
    /\ tracker.shutdown = "idle"
    /\ TrackerStep([tracker EXCEPT !.done = TRUE, !.shutdown = "waiting"],
                   Ev("cancelFunc", 0, NoBuf, "nil", <<>>, "", <<>>))

\* processWaiter.Wait returns, and Shutdown with it
ShutdownReturns ==
    /\ tracker.shutdown = "waiting"
    /\ tracker.processWaiter = 0
    /\ TrackerStep([tracker EXCEPT !.shutdown = "returned"],
                   Ev("Shutdown", 0, NoBuf, "nil", <<>>, "", <<>>))

NextTracker ==
    \/ \E t \in Threads, key \in ProcessKeys : Go(t, key)
    \/ \E t \in Threads : GoLocked(t)
    \/ \E key \in ProcessKeys : ProcessExits(key)
    \/ \E key \in ProcessKeys : sweep(key)
    \/ Shutdown
    \/ ShutdownReturns

SpecTracker == InitTracker /\ [][NextTracker]_vars

\* C40: once Shutdown has returned no process started through Go is
\* running, whenever its Go call was made, and a Go call that begins then
\* is rejected and starts nothing.
C40_NothingRunsAfterShutdown ==
    /\ [](tracker.shutdown = "returned"
            => \A key \in ProcessKeys : tracker.processesByKey[key] # "running")
    /\ [][(tracker.shutdown = "returned" /\ last' # last
           /\ last'.op \in {"Go", "isContextAlreadyDone"}
           /\ tracker.go[last'.t] = "")
             => (last'.status # "OK" /\ tracker'.processesByKey = tracker.processesByKey)]_vars

====
